---------------------------- MODULE Spec2Model ----------------------------
(***************************************************************************)
(* A model of the indicator calculator (backend/app): the weighting and    *)
(* scoring engine (engine.py), the matrix assembly (datasets.py), the      *)
(* store (storage.py), the sample seeding (sample.py) and the HTTP         *)
(* handlers that drive them (main.py).                                     *)
(*                                                                         *)
(* Numbers.  A Python float is modelled as a pair <<n, d>>: the rational   *)
(* n/d in lowest terms with d > 0, or one of the three special values of   *)
(* IEEE arithmetic, NaN = <<0,0>>, +inf = <<1,0>>, -inf = <<-1,0>>.        *)
(* Arithmetic is exact on the rationals (rounding is not modelled) and     *)
(* follows IEEE on the special values: NaN propagates, inf - inf = NaN,    *)
(* x/0 = +-inf, 0/0 = NaN, and every comparison with NaN is false.         *)
(***************************************************************************)
EXTENDS Integers, Sequences, FiniteSets, TLC

\* ------------------------------------------------------------ numbers

AbsInt(i) == IF i < 0 THEN -i ELSE i

SignInt(i) == IF i < 0 THEN -1 ELSE IF i > 0 THEN 1 ELSE 0

RECURSIVE GCD(_, _)
GCD(a, b) == IF b = 0 THEN a ELSE GCD(b, a % b)

\* n/d in lowest terms with a positive denominator; d = 0 gives NaN or +-inf
Norm(n, d) ==
    IF d = 0 THEN <<SignInt(n), 0>>
    ELSE LET g == GCD(AbsInt(n), AbsInt(d))
             s == IF d < 0 THEN -1 ELSE 1
         IN  <<(s * n) \div g, (s * d) \div g>>

Q(n, d) == Norm(n, d)

I(n) == <<n, 1>>

NaN == <<0, 0>>

PInf == <<1, 0>>

NInf == <<-1, 0>>

Zero == <<0, 1>>

One == <<1, 1>>

IsNaN(x) == x = NaN

IsFinite(x) == x[2] # 0

Neg(x) == <<-x[1], x[2]>>

Add(x, y) ==
    IF x[2] = 0 /\ y[2] = 0
    THEN (IF x = y THEN x ELSE NaN)
    ELSE Norm(x[1] * y[2] + y[1] * x[2], x[2] * y[2])

Sub(x, y) == Add(x, Neg(y))

Mul(x, y) == Norm(x[1] * y[1], x[2] * y[2])

Recip(x) == IF x[1] < 0 THEN <<-x[2], -x[1]>> ELSE <<x[2], x[1]>>

Div(x, y) == Mul(x, Recip(y))

\* the comparisons of IEEE arithmetic: false as soon as one side is NaN
Lt(x, y) ==
    /\ ~IsNaN(x)
    /\ ~IsNaN(y)
    /\ IF x[2] = 0 /\ y[2] = 0 THEN x[1] < y[1]
       ELSE x[1] * y[2] < y[1] * x[2]

Eq(x, y) == ~IsNaN(x) /\ ~IsNaN(y) /\ x = y

Le(x, y) == Lt(x, y) \/ Eq(x, y)

Gt(x, y) == Lt(y, x)

Sq(x) == Mul(x, x)

RECURSIVE SumSeq(_)
SumSeq(s) == IF s = <<>> THEN Zero ELSE Add(Head(s), SumSeq(Tail(s)))

\* np.min / np.max of a non-empty vector: a NaN entry makes the result NaN
RECURSIVE MinSeq(_)
MinSeq(s) ==
    IF Len(s) = 1 THEN s[1]
    ELSE LET m == MinSeq(Tail(s))
         IN  IF IsNaN(s[1]) \/ IsNaN(m) THEN NaN
             ELSE IF Lt(s[1], m) THEN s[1] ELSE m

RECURSIVE MaxSeq(_)
MaxSeq(s) ==
    IF Len(s) = 1 THEN s[1]
    ELSE LET m == MaxSeq(Tail(s))
         IN  IF IsNaN(s[1]) \/ IsNaN(m) THEN NaN
             ELSE IF Gt(s[1], m) THEN s[1] ELSE m

\* the entries of s that are not NaN, in order (the nan-functions of numpy)
RECURSIVE DropNaN(_)
DropNaN(s) ==
    IF s = <<>> THEN <<>>
    ELSE IF IsNaN(Head(s)) THEN DropNaN(Tail(s))
    ELSE <<Head(s)>> \o DropNaN(Tail(s))

\* np.nanmin / np.nanmax: NaN entries are ignored; all-NaN gives NaN
NanMin(s) == IF DropNaN(s) = <<>> THEN NaN ELSE MinSeq(DropNaN(s))

NanMax(s) == IF DropNaN(s) = <<>> THEN NaN ELSE MaxSeq(DropNaN(s))

\* floor of the square root of a natural number
RECURSIVE ISqrtFrom(_, _)
ISqrtFrom(n, r) == IF (r + 1) * (r + 1) > n THEN r ELSE ISqrtFrom(n, r + 1)

ISqrt(n) == ISqrtFrom(n, 0)

\* np.sqrt: exact on the squares of rationals (the only finite arguments
\* the model's datasets produce), rounded down to a multiple of 1/d
\* (d = 100 times the denominator) otherwise; sqrt(NaN) = NaN, sqrt(+inf) = +inf, sqrt(x < 0) = NaN
Sqrt(x) ==
    IF x[2] = 0 THEN (IF x = PInf THEN PInf ELSE NaN)
    ELSE IF x[1] < 0 THEN NaN
    ELSE LET rn == ISqrt(x[1])
             rd == ISqrt(x[2])
         IN  IF rn * rn = x[1] /\ rd * rd = x[2] THEN Q(rn, rd)
             ELSE Q(ISqrt(x[1] * x[2] * 10000), x[2] * 100)

\* math.log / np.log on the positive rationals a/b with a, b in 1..8,
\* to three decimals: ln(a/b) = ln a - ln b
LnMilli == <<0, 693, 1099, 1386, 1609, 1792, 1946, 2079>>

Ln(x) ==
    IF x = PInf THEN PInf
    ELSE IF x[2] = 0 \/ x[1] < 0 THEN NaN
    ELSE IF x[1] = 0 THEN NInf
    ELSE Q(LnMilli[x[1]] - LnMilli[x[2]], 1000)


\* ------------------------------------------------- vectors and matrices
\* A matrix is a sequence of rows, a row a sequence of numbers; a Python
\* dict is a function on its key set.

Range(s) == {s[i] : i \in DOMAIN s}

NCols(x) == Len(x[1])

Col(x, j) == [i \in 1..Len(x) |-> x[i][j]]

\* sum_j a[j] * b[j]
Dot(a, b) == SumSeq([j \in 1..Len(a) |-> Mul(a[j], b[j])])

\* the subsequence of s at the (increasing) positions of idxs
Pick(s, idxs) == [n \in 1..Len(idxs) |-> s[idxs[n]]]

\* the positions from `from` on, in increasing order, at which flags is TRUE
RECURSIVE IdxOf(_, _)
IdxOf(flags, from) ==
    IF from > Len(flags) THEN <<>>
    ELSE IF flags[from] THEN <<from>> \o IdxOf(flags, from + 1)
    ELSE IdxOf(flags, from + 1)

LastIndex(keys, k) == CHOOSE i \in DOMAIN keys :
    keys[i] = k /\ \A j \in DOMAIN keys : keys[j] = k => j <= i

\* {k: vals[i] for i, k in enumerate(keys)}: a repeated key keeps its last value
DictFromSeq(keys, vals) == [k \in Range(keys) |-> vals[LastIndex(keys, k)]]

\* ------------------------------------------------------------ engine.py

Failed(kind) == [err |-> kind]

\* _apply_direction
apply_direction(values, directions) ==
    [i \in 1..Len(values) |->
        [j \in 1..Len(values[i]) |->
            IF directions[j] = "negative" THEN Neg(values[i][j]) ELSE values[i][j]]]

\* A call of a _apply_direction that negates the columns of the array it is
\* passed, without the copy of line 18.
apply_direction_in_place(values, directions) ==
    [ret |-> apply_direction(values, directions),
     values |-> apply_direction(values, directions)]

\* one call of _apply_direction: what it returns and the caller's array
\* after the call, which the copy of line 18 leaves as it was
apply_direction_call(values, directions) ==
    [ret |-> apply_direction(values, directions), values |-> values]

\* _minmax_fit
minmax_fit(x) ==
    [min_v |-> [j \in 1..NCols(x) |-> NanMin(Col(x, j))],
     max_v |-> [j \in 1..NCols(x) |-> NanMax(Col(x, j))]]

\* A _minmax_transform that fits the minima and maxima on the matrix it is
\* given instead of using the ones it is passed.
minmax_transform_refit(x, min_v, max_v) ==
    LET lo == [j \in 1..NCols(x) |-> NanMin(Col(x, j))]
        hi == [j \in 1..NCols(x) |-> NanMax(Col(x, j))]
    IN  IF \E j \in DOMAIN lo : Eq(Sub(hi[j], lo[j]), Zero)
        THEN Failed("ComputeError")
        ELSE [err |-> "none",
              z |-> [i \in 1..Len(x) |->
                        [j \in 1..Len(x[i]) |->
                            Div(Sub(x[i][j], lo[j]), Sub(hi[j], lo[j]))]]]

\* _minmax_transform
minmax_transform(x, min_v, max_v) ==
    LET denom == [j \in 1..Len(min_v) |-> Sub(max_v[j], min_v[j])]
    IN  IF \E j \in DOMAIN denom : Eq(denom[j], Zero)
        THEN Failed("ComputeError")
        ELSE [err |-> "none",
              z |-> [i \in 1..Len(x) |->
                        [j \in 1..Len(x[i]) |-> Div(Sub(x[i][j], min_v[j]), denom[j])]]]

\* np.nanmean of a vector
NanMean(s) == Div(SumSeq(DropNaN(s)), I(Len(DropNaN(s))))

\* np.nanstd(ddof=1) of a vector: NaN when fewer than two entries are left
NanStd(s) ==
    LET v   == DropNaN(s)
        avg == Div(SumSeq(v), I(Len(v)))
        dof == Len(v) - 1
    IN  IF dof <= 0 THEN NaN
        ELSE Sqrt(Div(SumSeq([i \in 1..Len(v) |-> Sq(Sub(v[i], avg))]), I(dof)))

\* _zscore_fit
zscore_fit(x) ==
    [mean |-> [j \in 1..NCols(x) |-> NanMean(Col(x, j))],
     std  |-> [j \in 1..NCols(x) |-> NanStd(Col(x, j))]]

\* _zscore_transform
zscore_transform(x, mean, std) ==
    IF \E j \in DOMAIN std : Eq(std[j], Zero)
    THEN Failed("ComputeError")
    ELSE [err |-> "none",
          z |-> [i \in 1..Len(x) |->
                    [j \in 1..Len(x[i]) |-> Div(Sub(x[i][j], mean[j]), std[j])]]]

\* An _entropy_weights that returns the divergences as they are, not divided
\* by their total.
entropy_weights_unnormalized(z) ==
    LET n == Len(z)
        p == NCols(z)
        \* lines 65-69
        Weigh(d, total) ==
            IF Le(total, Zero) THEN Failed("ComputeError")
            ELSE [err |-> "none", weights |-> d]
        \* lines 63-64
        Diverge(e) ==
            LET d == [j \in 1..p |->
                         LET dj == Sub(One, e[j]) IN IF IsFinite(dj) THEN dj ELSE Zero]
            IN  Weigh(d, SumSeq(d))
        \* pij * logp of lines 59-62, for one entry
        PLogP(pij) == Mul(pij, IF Gt(pij, Zero) THEN Ln(pij) ELSE Zero)
        \* lines 53-62
        Entropy(col_sum, k) ==
            [j \in 1..p |->
                Mul(Neg(k), SumSeq([i \in 1..n |-> PLogP(Div(z[i][j], col_sum[j]))]))]
        OneIfZero(s) == IF Eq(s, Zero) THEN One ELSE s
    IN  Diverge(Entropy([j \in 1..p |-> OneIfZero(SumSeq(Col(z, j)))],
                        IF n > 1 THEN Div(One, Ln(I(n))) ELSE Zero))

\* _entropy_weights
entropy_weights(z) ==
    LET n == Len(z)
        p == NCols(z)
        \* lines 65-69
        Weigh(d, total) ==
            IF Le(total, Zero) THEN Failed("ComputeError")
            ELSE [err |-> "none", weights |-> [j \in 1..p |-> Div(d[j], total)]]
        \* lines 63-64
        Diverge(e) ==
            LET d == [j \in 1..p |->
                         LET dj == Sub(One, e[j]) IN IF IsFinite(dj) THEN dj ELSE Zero]
            IN  Weigh(d, SumSeq(d))
        \* pij * logp of lines 59-62, for one entry
        PLogP(pij) == Mul(pij, IF Gt(pij, Zero) THEN Ln(pij) ELSE Zero)
        \* lines 53-62
        Entropy(col_sum, k) ==
            [j \in 1..p |->
                Mul(Neg(k), SumSeq([i \in 1..n |-> PLogP(Div(z[i][j], col_sum[j]))]))]
        OneIfZero(s) == IF Eq(s, Zero) THEN One ELSE s
    IN  Diverge(Entropy([j \in 1..p |-> OneIfZero(SumSeq(Col(z, j)))],
                        IF n > 1 THEN Div(One, Ln(I(n))) ELSE Zero))


\* np.cov(z, rowvar=False, ddof=1) of a matrix with at least two columns
Cov(z) ==
    LET n == Len(z)
        m == [j \in 1..NCols(z) |-> Div(SumSeq(Col(z, j)), I(n))]
    IN  [a \in 1..NCols(z) |-> [b \in 1..NCols(z) |->
            Div(SumSeq([i \in 1..n |-> Mul(Sub(z[i][a], m[a]), Sub(z[i][b], m[b]))]),
                I(n - 1))]]

\* np.linalg.eigh of a finite symmetric 2x2 matrix <<<<a, b>>, <<b, c>>>>
\* followed by the descending sort of lines 85-87: the two eigenvalues and
\* the squared entries of their unit eigenvectors.  For a multiple of the
\* identity the axes are returned, the second one first after the reversal.
Eigh2(c) ==
    LET a == c[1][1]
        b == c[1][2]
        d == c[2][2]
        mid == Div(Add(a, d), I(2))
        r == Sqrt(Add(Sq(Div(Sub(a, d), I(2))), Sq(b)))
        l1 == Add(mid, r)
        l2 == Sub(mid, r)
        Unit2(u, v) == <<Div(Sq(u), Add(Sq(u), Sq(v))), Div(Sq(v), Add(Sq(u), Sq(v)))>>
    IN  IF Eq(b, Zero)
        THEN IF Gt(a, d) THEN [vals |-> <<a, d>>, vsq |-> <<<<One, Zero>>, <<Zero, One>>>>]
             ELSE [vals |-> <<d, a>>, vsq |-> <<<<Zero, One>>, <<One, Zero>>>>]
        ELSE [vals |-> <<l1, l2>>,
              vsq |-> <<Unit2(b, Sub(l1, a)), Unit2(b, Sub(l2, a))>>]

\* np.cumsum
RECURSIVE CumSum(_)
CumSum(s) ==
    IF s = <<>> THEN <<>>
    ELSE LET front == CumSum(SubSeq(s, 1, Len(s) - 1))
         IN  Append(front, IF front = <<>> THEN s[Len(s)]
                           ELSE Add(front[Len(front)], s[Len(s)]))

\* np.searchsorted(cum, v): the number of entries below v (NaN sorts last)
SearchSorted(cum, v) == Cardinality({i \in DOMAIN cum : Lt(cum[i], v)})

MinInt(a, b) == IF a < b THEN a ELSE b

MaxInt(a, b) == IF a > b THEN a ELSE b

\* _pca_weights.  lapack is what LAPACK does with a covariance matrix that
\* holds NaN or inf: "raise" (LinAlgError) or "nan" (NaN eigenpairs).
\* Matrices of more than two columns are outside the model.
pca_weights(z, cum_var_threshold, lapack) ==
    LET p == NCols(z)
        \* lines 105-109
        Weigh(w_raw, s, k, cumulative) ==
            IF Le(s, Zero) THEN Failed("ComputeError")
            ELSE [err |-> "none", weights |-> [j \in 1..p |-> Div(w_raw[j], s)],
                  k |-> k, cumulative |-> cumulative]
        \* lines 99-104
        Load(eigvals, vsq, k, cum) ==
            LET w_raw == [j \in 1..p |->
                             SumSeq([l \in 1..k |-> Mul(vsq[l][j], Sq(eigvals[l]))])]
            IN  Weigh(w_raw, SumSeq(w_raw), k, cum[k])
        \* lines 95-97
        Select(eigvals, vsq, cum) ==
            Load(eigvals, vsq,
                 MaxInt(1, MinInt(SearchSorted(cum, cum_var_threshold) + 1, p)), cum)
        \* lines 90-94
        Explain(eigvals, vsq, total) ==
            IF Le(total, Zero) THEN Failed("ComputeError")
            ELSE Select(eigvals, vsq, [l \in 1..p |-> Div(CumSum(eigvals)[l], total)])
        \* lines 85-89
        Sorted(eig) ==
            LET eigvals == [l \in 1..p |->
                               IF Lt(eig.vals[l], Zero) THEN Zero ELSE eig.vals[l]]
            IN  Explain(eigvals, eig.vsq, SumSeq(eigvals))
        \* lines 83-84
        Decompose(c) ==
            IF \A a \in 1..p : \A b \in 1..p : IsFinite(c[a][b]) THEN Sorted(Eigh2(c))
            ELSE IF lapack = "raise" THEN Failed("LinAlgError")
            ELSE Sorted([vals |-> [l \in 1..p |-> NaN],
                         vsq |-> [l \in 1..p |-> [j \in 1..p |-> NaN]]])
    IN  IF Len(z) < 2 THEN Failed("ComputeError")
        ELSE IF p = 1 THEN Failed("LinAlgError")
        ELSE Decompose(Cov(z))

\* M v for a square matrix M and a vector v
MatVec(M, v) == [i \in 1..Len(M) |-> Dot(M[i], v)]

\* np.linalg.eig followed by the argmax of the real parts (lines 120-123),
\* for a matrix with positive entries: by Perron-Frobenius the eigenvalue
\* of largest real part is the one with a positive eigenvector, which is
\* unique up to scale.  The eigenvector is searched for among the vectors
\* of integers 1..MaxEigEntry; its scale is irrelevant, line 127 divides
\* by its sum.
MaxEigEntry == 4

PrincipalEigen(M) ==
    LET n == Len(M)
        cand == [1..n -> 1..MaxEigEntry]
        num(v) == [i \in 1..n |-> I(v[i])]
        lam(v) == Div(MatVec(M, num(v))[1], I(v[1]))
        v0 == CHOOSE v \in cand :
                 /\ \A i \in 1..n : MatVec(M, num(v))[i] = Mul(lam(v), I(v[i]))
                 /\ \A u \in cand : (\A i \in 1..n : u[i] * v[1] = v[i] * u[1])
                                       => u[1] >= v[1]
    IN  [lambda_max |-> lam(v0), vec |-> num(v0)]

\* An RI that is 1 for every size.
ri_table_unit(n) == One

\* ri_table.get(n, 1.59)
ri_table(n) ==
    CASE n = 1 -> Zero
      [] n = 2 -> Zero
      [] n = 3 -> Q(58, 100)
      [] n = 4 -> Q(9, 10)
      [] n = 5 -> Q(112, 100)
      [] n = 6 -> Q(124, 100)
      [] n = 7 -> Q(132, 100)
      [] n = 8 -> Q(141, 100)
      [] n = 9 -> Q(145, 100)
      [] n = 10 -> Q(149, 100)
      [] n = 11 -> Q(151, 100)
      [] n = 12 -> Q(148, 100)
      [] n = 13 -> Q(156, 100)
      [] n = 14 -> Q(157, 100)
      [] n = 15 -> Q(159, 100)
      [] OTHER -> Q(159, 100)

\* An _ahp_weights that returns the principal eigenvector as it is, not
\* divided by its sum.
ahp_weights_unnormalized(matrix) ==
    LET n == Len(matrix)
        \* lines 129-152
        Consistency(w, lambda_max, ci, ri) ==
            [err |-> "none", weights |-> w, lambda_max |-> lambda_max, ci |-> ci,
             cr |-> IF Eq(ri, Zero) THEN Zero ELSE Div(ci, ri)]
        \* lines 125-131
        Weigh(vec, total, lambda_max) ==
            IF Eq(total, Zero) THEN Failed("ComputeError")
            ELSE Consistency(vec, lambda_max,
                             IF n > 1 THEN Div(Sub(lambda_max, I(n)), I(n - 1)) ELSE Zero,
                             ri_table(n))
        \* lines 120-124
        Principal(eig) ==
            LET vec == [i \in 1..n |->
                           IF Lt(eig.vec[i], Zero) THEN Neg(eig.vec[i]) ELSE eig.vec[i]]
            IN  Weigh(vec, SumSeq(vec), eig.lambda_max)
    IN  IF Len(matrix) # Len(matrix[1]) THEN Failed("ComputeError")
        ELSE Principal(PrincipalEigen(matrix))

\* An _ahp_weights that rejects a matrix whose CR is 0.1 or more.
ahp_weights_strict(matrix) ==
    LET n == Len(matrix)
        \* lines 129-152
        Consistency(w, lambda_max, ci, ri) ==
            IF ~Eq(ri, Zero) /\ Le(Q(1, 10), Div(ci, ri)) THEN Failed("ComputeError")
            ELSE [err |-> "none", weights |-> w, lambda_max |-> lambda_max, ci |-> ci,
                  cr |-> IF Eq(ri, Zero) THEN Zero ELSE Div(ci, ri)]
        \* lines 125-131
        Weigh(vec, total, lambda_max) ==
            IF Eq(total, Zero) THEN Failed("ComputeError")
            ELSE Consistency([i \in 1..n |-> Div(vec[i], total)], lambda_max,
                             IF n > 1 THEN Div(Sub(lambda_max, I(n)), I(n - 1)) ELSE Zero,
                             ri_table(n))
        \* lines 120-124
        Principal(eig) ==
            LET vec == [i \in 1..n |->
                           IF Lt(eig.vec[i], Zero) THEN Neg(eig.vec[i]) ELSE eig.vec[i]]
            IN  Weigh(vec, SumSeq(vec), eig.lambda_max)
    IN  IF Len(matrix) # Len(matrix[1]) THEN Failed("ComputeError")
        ELSE Principal(PrincipalEigen(matrix))

\* _ahp_weights, on the rectangular matrix np.array(ahp_matrix) built
ahp_weights(matrix) ==
    LET n == Len(matrix)
        \* lines 129-152
        Consistency(w, lambda_max, ci, ri) ==
            [err |-> "none", weights |-> w, lambda_max |-> lambda_max, ci |-> ci,
             cr |-> IF Eq(ri, Zero) THEN Zero ELSE Div(ci, ri)]
        \* lines 125-131
        Weigh(vec, total, lambda_max) ==
            IF Eq(total, Zero) THEN Failed("ComputeError")
            ELSE Consistency([i \in 1..n |-> Div(vec[i], total)], lambda_max,
                             IF n > 1 THEN Div(Sub(lambda_max, I(n)), I(n - 1)) ELSE Zero,
                             ri_table(n))
        \* lines 120-124
        Principal(eig) ==
            LET vec == [i \in 1..n |->
                           IF Lt(eig.vec[i], Zero) THEN Neg(eig.vec[i]) ELSE eig.vec[i]]
            IN  Weigh(vec, SumSeq(vec), eig.lambda_max)
    IN  IF Len(matrix) # Len(matrix[1]) THEN Failed("ComputeError")
        ELSE Principal(PrincipalEigen(matrix))

\* ind["dimension2Key"] or "default"
DimOf(ind) == IF ind.dimension2Key = "" THEN "default" ELSE ind.dimension2Key

\* build_dimension2_weights: every entry of the list adds its weight to its
\* group, a record listed twice adds twice
build_dimension2_weights(indicators, weights) ==
    [g \in {DimOf(indicators[i]) : i \in DOMAIN indicators} |->
        SumSeq([i \in DOMAIN indicators |->
            IF DimOf(indicators[i]) = g
            THEN (IF indicators[i].key \in DOMAIN weights
                  THEN weights[indicators[i].key] ELSE Zero)
            ELSE Zero])]

\* A compute_scores whose sub-scores use the weights as they are.
compute_scores_unconditioned(z, indicator_keys, indicators, weights) ==
    LET w == [j \in DOMAIN indicator_keys |-> weights[indicator_keys[j]]]
        score_raw == [i \in DOMAIN z |-> Dot(z[i], w)]
        key_to_dim == DictFromSeq([i \in DOMAIN indicators |-> indicators[i].key],
                                  [i \in DOMAIN indicators |-> DimOf(indicators[i])])
        GroupOf(k) == IF k \in DOMAIN key_to_dim THEN key_to_dim[k] ELSE "default"
        idxs(g) == IdxOf([j \in DOMAIN indicator_keys |-> GroupOf(indicator_keys[j]) = g], 1)
        wg(g) == SumSeq(Pick(w, idxs(g)))
        dims == {GroupOf(indicator_keys[j]) : j \in DOMAIN indicator_keys}
    IN  [score_raw |-> score_raw,
         sub_scores |-> [g \in {h \in dims : ~Le(wg(h), Zero)} |->
                            [i \in DOMAIN z |-> Dot(Pick(z[i], idxs(g)), Pick(w, idxs(g)))]]]

\* compute_scores
compute_scores(z, indicator_keys, indicators, weights) ==
    LET w == [j \in DOMAIN indicator_keys |-> weights[indicator_keys[j]]]
        score_raw == [i \in DOMAIN z |-> Dot(z[i], w)]
        key_to_dim == DictFromSeq([i \in DOMAIN indicators |-> indicators[i].key],
                                  [i \in DOMAIN indicators |-> DimOf(indicators[i])])
        GroupOf(k) == IF k \in DOMAIN key_to_dim THEN key_to_dim[k] ELSE "default"
        idxs(g) == IdxOf([j \in DOMAIN indicator_keys |-> GroupOf(indicator_keys[j]) = g], 1)
        wg(g) == SumSeq(Pick(w, idxs(g)))
        w_cond(g) == [n \in DOMAIN idxs(g) |-> Div(Pick(w, idxs(g))[n], wg(g))]
        dims == {GroupOf(indicator_keys[j]) : j \in DOMAIN indicator_keys}
    IN  [score_raw |-> score_raw,
         sub_scores |-> [g \in {h \in dims : ~Le(wg(h), Zero)} |->
                            [i \in DOMAIN z |-> Dot(Pick(z[i], idxs(g)), w_cond(g))]]]

\* A scale_0_100 that clamps its result to [0, 100].
scale_0_100_clamped(values, vmin, vmax) ==
    LET denom == Sub(vmax, vmin)
        Clamp(v) == IF Lt(v, Zero) THEN Zero ELSE IF Gt(v, I(100)) THEN I(100) ELSE v
    IN  IF Eq(denom, Zero) THEN [i \in DOMAIN values |-> I(50)]
        ELSE [i \in DOMAIN values |->
                 Clamp(Mul(Div(Sub(values[i], vmin), denom), I(100)))]

\* scale_0_100
scale_0_100(values, vmin, vmax) ==
    LET denom == Sub(vmax, vmin)
    IN  IF Eq(denom, Zero) THEN [i \in DOMAIN values |-> I(50)]
        ELSE [i \in DOMAIN values |-> Mul(Div(Sub(values[i], vmin), denom), I(100))]


\* Python's None, as the value of a model's pca and ahp fields
None == [none |-> TRUE]

\* ahp_matrix=None, the default of train_weight_model's parameter
NoMatrix == <<>>

\* np.array(ahp_matrix, dtype=float) raises ValueError on a ragged list
Ragged(matrix) == \E i \in DOMAIN matrix : Len(matrix[i]) # Len(matrix[1])

\* train_weight_model.  model_id is the uuid drawn at line 264, now the
\* reading of the clock at line 268, lapack see pca_weights.
train_weight_model(method, indicator_keys, indicators, x_train, directions, trained_on_dataset_ids, ahp_matrix, pca_cum_var_threshold, model_id, now, lapack) ==
    LET \* lines 259-278
        Record(standardization, wres, weights, sc) ==
            [err |-> "none",
             model |-> [id |-> model_id,
                        createdAt |-> now,
                        method |-> method,
                        indicatorKeys |-> indicator_keys,
                        weights |-> weights,
                        dimension2Weights |-> build_dimension2_weights(indicators, weights),
                        standardization |-> standardization,
                        scaling |-> [scoreMin |-> MinSeq(sc.score_raw),
                                     scoreMax |-> MaxSeq(sc.score_raw),
                                     subScoreMin |-> [g \in DOMAIN sc.sub_scores |->
                                                         MinSeq(sc.sub_scores[g])],
                                     subScoreMax |-> [g \in DOMAIN sc.sub_scores |->
                                                         MaxSeq(sc.sub_scores[g])]],
                        trainedOnDatasetIds |-> trained_on_dataset_ids,
                        pca |-> IF method = "pca"
                                THEN [k |-> wres.k, cumulative |-> wres.cumulative,
                                      threshold |-> pca_cum_var_threshold]
                                ELSE None,
                        ahp |-> IF method = "ahp"
                                THEN [matrix |-> ahp_matrix, lambdaMax |-> wres.lambda_max,
                                      CI |-> wres.ci, CR |-> wres.cr]
                                ELSE None]]
        \* lines 254-258
        Score(standardization, z, wres, weights) ==
            Record(standardization, wres, weights,
                   compute_scores(z, indicator_keys, indicators, weights))
        \* line 253
        Weighted(standardization, z, wres) ==
            IF wres.err # "none" THEN Failed(wres.err)
            ELSE IF Len(wres.weights) < Len(indicator_keys) THEN Failed("IndexError")
            ELSE Score(standardization, z, wres, DictFromSeq(indicator_keys, wres.weights))
        \* lines 216, 227-228, 241-242
        Transformed(standardization, zres) ==
            IF zres.err # "none" THEN zres
            ELSE Weighted(standardization, zres.z,
                          CASE method = "entropy" -> entropy_weights(zres.z)
                            [] method = "pca" ->
                                  pca_weights(zres.z, pca_cum_var_threshold, lapack)
                            [] method = "ahp" ->
                                  IF Ragged(ahp_matrix) THEN Failed("ValueError")
                                  ELSE ahp_weights(ahp_matrix))
        \* lines 213-223
        MinMax(x, fit) ==
            Transformed([kind |-> "minmax",
                         min |-> DictFromSeq(indicator_keys, fit.min_v),
                         max |-> DictFromSeq(indicator_keys, fit.max_v)],
                        minmax_transform(x, fit.min_v, fit.max_v))
        \* lines 224-235, 236-249
        ZScore(x, fit) ==
            Transformed([kind |-> "zscore",
                         mean |-> DictFromSeq(indicator_keys, fit.mean),
                         std |-> DictFromSeq(indicator_keys, fit.std)],
                        zscore_transform(x, fit.mean, fit.std))
        \* line 211
        Directed(x) ==
            IF method = "entropy" THEN MinMax(x, minmax_fit(x))
            ELSE IF method = "ahp" /\ ahp_matrix = NoMatrix THEN Failed("ComputeError")
            ELSE ZScore(x, zscore_fit(x))
    IN  IF method \notin {"entropy", "pca", "ahp"} THEN Failed("ComputeError")
        ELSE Directed(apply_direction(x_train, directions))

\* A dispatch that passes the matrix on as it is for a kind it does not know.
standardize_passing(std, indicator_keys, x2) ==
    LET Stored(dict) == [j \in DOMAIN indicator_keys |-> dict[indicator_keys[j]]]
    IN  IF std.kind = "minmax"
        THEN minmax_transform(x2, Stored(std.min), Stored(std.max))
        ELSE IF std.kind = "zscore"
        THEN zscore_transform(x2, Stored(std.mean), Stored(std.std))
        ELSE [err |-> "none", z |-> x2]

\* lines 292-302 of apply_weight_model: the dispatch on the stored kind
standardize(std, indicator_keys, x2) ==
    LET Stored(dict) == [j \in DOMAIN indicator_keys |-> dict[indicator_keys[j]]]
    IN  IF std.kind = "minmax"
        THEN minmax_transform(x2, Stored(std.min), Stored(std.max))
        ELSE IF std.kind = "zscore"
        THEN zscore_transform(x2, Stored(std.mean), Stored(std.std))
        ELSE Failed("ComputeError")

\* apply_weight_model.  Beside the four values the function returns, the
\* result holds index_0_100 (line 310) and the boundaries vmin, vmax that
\* lines 316-317 pick for every group.
apply_weight_model(model, indicators, x, directions) ==
    LET indicator_keys == model.indicatorKeys
        scaling == model.scaling
        \* lines 307-320
        Scale(z, sc, vmin, vmax) ==
            [err |-> "none",
             z |-> z,
             score_raw |-> sc.score_raw,
             sub_scores |-> sc.sub_scores,
             index_0_100 |-> scale_0_100(sc.score_raw, scaling.scoreMin, scaling.scoreMax),
             sub_index_0_100 |-> [g \in DOMAIN sc.sub_scores |->
                                     scale_0_100(sc.sub_scores[g], vmin[g], vmax[g])],
             vmin |-> vmin,
             vmax |-> vmax]
        \* lines 312-317
        Bound(z, sc) ==
            Scale(z, sc,
                  [g \in DOMAIN sc.sub_scores |->
                      IF g \in DOMAIN scaling.subScoreMin THEN scaling.subScoreMin[g]
                      ELSE MinSeq(sc.sub_scores[g])],
                  [g \in DOMAIN sc.sub_scores |->
                      IF g \in DOMAIN scaling.subScoreMax THEN scaling.subScoreMax[g]
                      ELSE MaxSeq(sc.sub_scores[g])])
        \* lines 304-306
        Score(zres) ==
            IF zres.err # "none" THEN zres
            ELSE Bound(zres.z,
                       compute_scores(zres.z, indicator_keys, indicators, model.weights))
    IN  Score(standardize(model.standardization, indicator_keys,
                          apply_direction(x, directions)))

\* ------------------------------------------- csv_utils.py, datasets.py
\* A CSV cell is a string.  float(v) of the cells the model uses: a decimal
\* numeral, "inf" and "nan" are accepted, anything else raises ValueError.
CellValue ==
    [c \in {"0", "1", "2", "3", "4", "10", "20", "30", "inf", "nan"} |->
        CASE c = "0" -> I(0)
          [] c = "1" -> I(1)
          [] c = "2" -> I(2)
          [] c = "3" -> I(3)
          [] c = "4" -> I(4)
          [] c = "10" -> I(10)
          [] c = "20" -> I(20)
          [] c = "30" -> I(30)
          [] c = "inf" -> PInf
          [] c = "nan" -> NaN]

\* int(float(y)) of a year cell
YearValue == [y \in {"2020", "2021"} |-> IF y = "2020" THEN 2020 ELSE 2021]

RECURSIVE Concat(_)
Concat(ss) == IF ss = <<>> THEN <<>> ELSE Head(ss) \o Concat(Tail(ss))

\* lines 54-94 of build_matrix_for_datasets for one dataset: its rows'
\* entities, years and values, or the error raised
DatasetRows(dsets, fls, maps, dataset_id, indicator_keys) ==
    IF dataset_id \notin DOMAIN dsets THEN Failed("KeyError")
    ELSE
    LET parsed == fls[dataset_id]
        mapping == IF dataset_id \in DOMAIN maps THEN maps[dataset_id].map ELSE <<>>
        ColFor(k) == IF k \in DOMAIN mapping THEN mapping[k] ELSE ""
        cols == Range(parsed.columns)
        RowBad(r) ==
            \/ r["entity"] = ""
            \/ r["year"] = ""
            \/ r["year"] \notin DOMAIN YearValue
            \/ \E j \in DOMAIN indicator_keys :
                  r[ColFor(indicator_keys[j])] \notin DOMAIN CellValue
    IN  IF \E j \in DOMAIN indicator_keys :
              ColFor(indicator_keys[j]) = "" \/ ColFor(indicator_keys[j]) \notin cols
        THEN Failed("CsvError")
        ELSE IF "entity" \notin cols \/ "year" \notin cols THEN Failed("CsvError")
        ELSE IF \E i \in DOMAIN parsed.rows : RowBad(parsed.rows[i]) THEN Failed("CsvError")
        ELSE [err |-> "none",
              entities |-> [i \in DOMAIN parsed.rows |-> parsed.rows[i]["entity"]],
              years |-> [i \in DOMAIN parsed.rows |-> YearValue[parsed.rows[i]["year"]]],
              values |-> [i \in DOMAIN parsed.rows |->
                             [j \in DOMAIN indicator_keys |->
                                 CellValue[parsed.rows[i][ColFor(indicator_keys[j])]]]]]

\* the first error of a sequence of results, "none" if there is none
RECURSIVE FirstErr(_)
FirstErr(rs) ==
    IF rs = <<>> THEN "none"
    ELSE IF Head(rs).err # "none" THEN Head(rs).err
    ELSE FirstErr(Tail(rs))

\* build_matrix_for_datasets
build_matrix_for_datasets(dsets, fls, maps, dataset_ids, indicator_keys, indicators_by_key) ==
    LET per == [n \in DOMAIN dataset_ids |->
                   DatasetRows(dsets, fls, maps, dataset_ids[n], indicator_keys)]
    IN  IF \E j \in DOMAIN indicator_keys : indicator_keys[j] \notin DOMAIN indicators_by_key
        THEN Failed("CsvError")
        ELSE IF FirstErr(per) # "none" THEN Failed(FirstErr(per))
        ELSE [err |-> "none",
              entities |-> Concat([n \in DOMAIN per |-> per[n].entities]),
              years |-> Concat([n \in DOMAIN per |-> per[n].years]),
              x |-> Concat([n \in DOMAIN per |-> per[n].values]),
              directions |-> [j \in DOMAIN indicator_keys |->
                                 indicators_by_key[indicator_keys[j]].direction]]

\* ------------------------------------------------------------- inputs
\* The files the model's requests upload: three entities, one year, the
\* indicator columns a and b.

Entities == <<"e1", "e2", "e3">>

CsvFile(as, bs) ==
    [columns |-> <<"entity", "year", "a", "b">>,
     rows |-> [i \in DOMAIN as |->
                  [entity |-> Entities[i], year |-> "2020", a |-> as[i], b |-> bs[i]]]]

\* the training sample: two partly correlated columns
FileBase == CsvFile(<<"0", "1", "2">>, <<"0", "2", "1">>)

\* two perfectly correlated columns
FileCorr == CsvFile(<<"0", "1", "2">>, <<"0", "1", "2">>)

\* values outside the range of the other files; shares the row (2, 2) with
\* FileCorr
FileWide == CsvFile(<<"0", "2", "4">>, <<"4", "2", "0">>)

\* a single row
FileOne == CsvFile(<<"1">>, <<"2">>)

\* a constant column
FileConst == CsvFile(<<"1", "1", "1">>, <<"0", "1", "2">>)

\* a column of infinities
FileInf == CsvFile(<<"inf", "inf", "inf">>, <<"0", "1", "2">>)

\* two columns that are equal after min-max standardization
FileScaled == CsvFile(<<"10", "20", "30">>, <<"1", "2", "3">>)

\* an empty cell and a cell that is no number
FileBad == CsvFile(<<"0", "", "2">>, <<"0", "x", "1">>)

Keys == {"a", "b"}

Ind(k, g, d) == [key |-> k, dimension2Key |-> g, direction |-> d]

\* --------------------------------------------------------------- state

VARIABLES
    phase,          \* "boot" while main.py is being imported, then "serving"
    datasets,       \* db.json: dataset id -> DatasetRecord
    files,          \* datasets_dir/<id>/data.csv: dataset id -> parsed content
    indicators,     \* db.json: indicator key -> IndicatorRecord
    mappings,       \* db.json: dataset id -> MappingRecord
    weightModels,   \* db.json: model id -> WeightModelRecord
    results,        \* db.json: result id -> ResultSetRecord
    resultFiles,    \* results_dir/<id>/result.csv: result id -> rows
    uuids,          \* the number of uuid4 values drawn so far
    requests,       \* the number of requests handled so far
    response,       \* the response to the last request
    returned,       \* history: model id -> the record train_weight_model returned
    computed,       \* history: result id -> the compute request's inputs and bounds
    route,          \* the handler of main.py that answered the last request
    eIn,            \* engine: the arguments of the train_weight_model call
    eOut,           \* engine: what that call returned or raised
    eApp1,          \* engine: a first apply_weight_model call on eOut's model
    eApp2,          \* engine: a second one
    eAhp,           \* engine: a call of _ahp_weights on a comparison matrix
    eKind,          \* engine: an apply call on eOut's model under another kind
    eDir,           \* engine: a call of _apply_direction on a matrix
    lock,           \* threads: the holder of Store._lock, "free" if none
    pc,             \* threads: thread -> the line of storage.py it is about to run
    call,           \* threads: thread -> the Store method it runs and its arguments
    db,             \* threads: Store._db, the tables in memory
    dbJson,         \* threads: the content of db.json
    dataCsv,        \* threads: dataset id -> the content of its data.csv
    schemaJson      \* threads: dataset id -> the content of its schema.json

\* the service's variables
svars == <<phase, datasets, files, indicators, mappings, weightModels, results,
           resultFiles, uuids, requests, response, returned, computed, route>>

\* the variables of the engine called on its own
evars == <<eIn, eOut, eApp1, eApp2, eAhp, eKind, eDir>>

\* the variables of the threads that call the Store concurrently
cvars == <<lock, pc, call, db, dbJson, dataCsv, schemaJson>>

vars == <<svars, evars, cvars>>

\* the threads of the server's pool
Threads == {"t1", "t2", "t3"}

\* no thread is inside the Store, whose tables are those of Store.load
\* (storage.py lines 69-77)
NoCalls ==
    /\ lock = "free"
    /\ pc = [t \in Threads |-> "idle"]
    /\ call = [t \in Threads |-> None]
    /\ db = [datasets |-> <<>>, weightModels |-> <<>>]
    /\ dbJson = [datasets |-> <<>>, weightModels |-> <<>>]
    /\ dataCsv = <<>>
    /\ schemaJson = <<>>

\* Store.load on an empty data directory (storage.py lines 69-77), before
\* main.py line 49 looks at it
StoreLoaded ==
    /\ phase = "boot"
    /\ datasets = <<>>
    /\ files = <<>>
    /\ indicators = <<>>
    /\ mappings = <<>>
    /\ weightModels = <<>>
    /\ results = <<>>
    /\ resultFiles = <<>>
    /\ uuids = 0
    /\ requests = 0
    /\ response = [status |-> 0]
    /\ returned = <<>>
    /\ computed = <<>>
    /\ route = "none"

\* ------------------------------------- the engine called on its own
\* train_weight_model and apply_weight_model with the arguments the
\* handlers of main.py build for them: the indicator records and directions
\* of an indicator library, and the matrix build_matrix_for_datasets reads
\* from one file through the mapping {k: k}.

LibPlain == [k \in Keys |-> Ind(k, IF k = "a" THEN "g1" ELSE "g2", "positive")]

LibOneGroup == [k \in Keys |-> Ind(k, "g1", IF k = "a" THEN "positive" ELSE "negative")]

LibDefault == [k \in Keys |-> Ind(k, IF k = "a" THEN "" ELSE "g1", "positive")]

Libs == {LibPlain, LibOneGroup, LibDefault}

KeyLists == {<<"a">>, <<"a", "b">>, <<"b", "a">>, <<"a", "a">>}

EngineFiles == {FileBase, FileCorr, FileWide, FileOne, FileConst, FileInf, FileScaled}

ApplyFiles == {FileBase, FileCorr, FileWide, FileOne, FileInf, FileScaled}

Ahp1 == <<<<I(1)>>>>

Ahp2 == <<<<I(1), I(2)>>, <<Q(1, 2), I(1)>>>>

Ahp2Inconsistent == <<<<I(1), I(2)>>, <<I(2), I(1)>>>>

Ahp3 == <<<<I(1), I(2), I(4)>>, <<Q(1, 2), I(1), I(2)>>, <<Q(1, 4), Q(1, 2), I(1)>>>>

AhpNonSquare == <<<<I(1), I(2), I(4)>>, <<Q(1, 2), I(1), I(2)>>>>

AhpRagged == <<<<I(1), I(2)>>, <<Q(1, 2)>>>>

\* a reciprocal matrix that is not consistent: a_12 a_23 = 4, a_13 = 1/2
Ahp3Inconsistent ==
    <<<<I(1), I(2), Q(1, 2)>>, <<Q(1, 2), I(1), I(2)>>, <<I(2), Q(1, 2), I(1)>>>>

\* a reciprocal matrix of four indicators whose rows all sum to 9/2
Ahp4Inconsistent ==
    <<<<I(1), I(2), I(1), Q(1, 2)>>, <<Q(1, 2), I(1), I(2), I(1)>>,
      <<I(1), Q(1, 2), I(1), I(2)>>, <<I(2), I(1), Q(1, 2), I(1)>>>>

AhpMatrices ==
    {Ahp1, Ahp2, Ahp2Inconsistent, Ahp3, Ahp3Inconsistent, AhpNonSquare, AhpRagged}

\* the largest entry of the vectors w of the consistent matrices
MaxJudgement == 3

\* the comparison matrix a_ij = w_i / w_j of a vector w of positive integers
ConsistentMatrix(w) == [i \in DOMAIN w |-> [j \in DOMAIN w |-> Q(w[i], w[j])]]

\* the arrays _ahp_weights is called on: the rectangular matrices above and
\* the consistent matrices of two and three indicators
AhpArrays ==
    {m \in AhpMatrices : ~Ragged(m)}
    \cup {Ahp4Inconsistent}
    \cup {ConsistentMatrix(w) : w \in [1..2 -> 1..MaxJudgement] \cup [1..3 -> 1..MaxJudgement]}

\* pcaCumVarThreshold's default, 0.85
DefaultThreshold == Q(85, 100)

\* the pcaCumVarThreshold values of the trainings: the default and a value
\* no cumulative ratio reaches
Thresholds == {DefaultThreshold, Q(3, 2)}

IdentityMap == [datasetId |-> "d", map |-> [k \in Keys |-> k]]

\* the matrix and directions of one file under an indicator library
MatrixOf(file, lib, keys) ==
    build_matrix_for_datasets([d \in {"d"} |-> TRUE], [d \in {"d"} |-> file],
                              [d \in {"d"} |-> IdentityMap], <<"d">>, keys, lib)

\* selected = [indicators_by_key[k] for k in keys]
Selected(lib, keys) == [j \in DOMAIN keys |-> lib[keys[j]]]

Idle == [st |-> "idle"]

EInit ==
    /\ StoreLoaded
    /\ eIn = Idle
    /\ eOut = Idle
    /\ eApp1 = Idle
    /\ eApp2 = Idle
    /\ eAhp = Idle
    /\ eKind = Idle
    /\ eDir = Idle
    /\ NoCalls

ETrain(method, keys, lib, file, ahp, threshold, lapack) ==
    /\ eIn = Idle
    /\ eAhp = Idle
    /\ eDir = Idle
    /\ LET m == MatrixOf(file, lib, keys)
       IN  /\ m.err = "none"
           /\ eIn' = [st |-> "called", method |-> method, keys |-> keys, lib |-> lib,
                      file |-> file, entities |-> m.entities, years |-> m.years,
                      x |-> m.x, directions |-> m.directions, ahp |-> ahp]
           /\ eOut' = train_weight_model(method, keys, Selected(lib, keys), m.x,
                                         m.directions, <<"d">>, ahp, threshold,
                                         1, 0, lapack)
    /\ UNCHANGED <<eApp1, eApp2, eAhp, eKind, eDir, svars, cvars>>

\* one apply_weight_model call on the trained model
ApplyCall(file, lib) ==
    LET m == MatrixOf(file, lib, eOut.model.indicatorKeys)
    IN  [st |-> "called", lib |-> lib, x |-> m.x, directions |-> m.directions,
         out |-> apply_weight_model(eOut.model, Selected(lib, eOut.model.indicatorKeys),
                                    m.x, m.directions)]

EApply1(file, lib) ==
    /\ eIn # Idle
    /\ eOut.err = "none"
    /\ eApp1 = Idle
    /\ eKind = Idle
    /\ eApp1' = ApplyCall(file, lib)
    /\ UNCHANGED <<eIn, eOut, eApp2, eAhp, eKind, eDir, svars, cvars>>

\* a second call, on another matrix under the library of the first
EApply2(file, lib) ==
    /\ eApp1 # Idle
    /\ eApp2 = Idle
    /\ eApp2' = ApplyCall(file, lib)
    /\ UNCHANGED <<eIn, eOut, eApp1, eAhp, eKind, eDir, svars, cvars>>

\* the standardization kinds of a record that was edited after the training
OtherKinds == {"robust", ""}

\* one apply_weight_model call on the trained model with its kind replaced,
\* instead of the calls on the model as it is
EApplyKind(file, lib, kind) ==
    /\ eIn # Idle
    /\ eOut.err = "none"
    /\ eApp1 = Idle
    /\ eKind = Idle
    /\ LET model == [eOut.model EXCEPT !.standardization.kind = kind]
           m == MatrixOf(file, lib, model.indicatorKeys)
       IN  eKind' = [st |-> "called", kind |-> kind, x |-> m.x,
                     out |-> apply_weight_model(model, Selected(lib, model.indicatorKeys),
                                                m.x, m.directions)]
    /\ UNCHANGED <<eIn, eOut, eApp1, eApp2, eAhp, eDir, svars, cvars>>

\* one call of _ahp_weights on the array of a comparison matrix, instead of
\* a training
EAhp(matrix) ==
    /\ eIn = Idle
    /\ eAhp = Idle
    /\ eDir = Idle
    /\ eAhp' = [st |-> "called", matrix |-> matrix, out |-> ahp_weights(matrix)]
    /\ UNCHANGED <<eIn, eOut, eApp1, eApp2, eKind, eDir, svars, cvars>>

\* one call of _apply_direction on the matrix of a file, instead of a
\* training
EDirection(keys, lib, file) ==
    /\ eIn = Idle
    /\ eAhp = Idle
    /\ eDir = Idle
    /\ LET m == MatrixOf(file, lib, keys)
       IN  /\ m.err = "none"
           /\ eDir' = [st |-> "called", values |-> m.x, directions |-> m.directions,
                       out |-> apply_direction_call(m.x, m.directions)]
    /\ UNCHANGED <<eIn, eOut, eApp1, eApp2, eAhp, eKind, svars, cvars>>

ENext ==
    \/ \E method \in {"entropy", "pca"}, keys \in KeyLists, lib \in Libs,
          file \in EngineFiles, threshold \in Thresholds, lapack \in {"raise", "nan"} :
          /\ lapack = "raise" => method = "pca"
          /\ threshold # DefaultThreshold => method = "pca"
          /\ ETrain(method, keys, lib, file, NoMatrix, threshold, lapack)
    \/ \E keys \in KeyLists, lib \in Libs, file \in EngineFiles, ahp \in AhpMatrices :
          ETrain("ahp", keys, lib, file, ahp, DefaultThreshold, "nan")
    \/ \E file \in ApplyFiles, lib \in Libs : EApply1(file, lib)
    \/ \E file \in ApplyFiles : EApply2(file, eApp1.lib)
    \/ \E matrix \in AhpArrays : EAhp(matrix)
    \/ \E kind \in OtherKinds : EApplyKind(FileBase, LibPlain, kind)
    \/ \E keys \in KeyLists, lib \in Libs, file \in EngineFiles : EDirection(keys, lib, file)

EngineSpec == EInit /\ [][ENext]_vars


\* ------------------------------------------ properties of the engine

Trained == eIn # Idle /\ eOut.err = "none"

Applied(app) == app # Idle /\ app.out.err = "none"

\* the sum of the values of a dict of numbers
RECURSIVE SumOver(_, _)
SumOver(dict, keys) ==
    IF keys = {} THEN Zero
    ELSE LET k == CHOOSE k \in keys : TRUE
         IN  Add(dict[k], SumOver(dict, keys \ {k}))

SumValues(dict) == SumOver(dict, DOMAIN dict)

InRange(v, lo, hi) == Le(lo, v) /\ Le(v, hi)

\* C1: the weights of every record train_weight_model returns sum to 1,
\* for the three methods, any indicatorKeys list and any comparison matrix
\* that is accepted.
C1_WeightsSumToOne ==
    Trained => SumValues(eOut.model.weights) = One

\* C2: applying a model to its own training matrix, with the indicators and
\* directions of the training, gives raw scores and sub-scores whose
\* minimum and maximum are the boundaries training stored, and every row an
\* index between 0 and 100.
C2_TrainApplyConsistent ==
    (Trained /\ eApp1 # Idle /\ eApp1.x = eIn.x /\ eApp1.lib = eIn.lib) =>
        /\ eApp1.out.err = "none"
        /\ MinSeq(eApp1.out.score_raw) = eOut.model.scaling.scoreMin
        /\ MaxSeq(eApp1.out.score_raw) = eOut.model.scaling.scoreMax
        /\ DOMAIN eApp1.out.sub_scores = DOMAIN eOut.model.scaling.subScoreMin
        /\ \A g \in DOMAIN eApp1.out.sub_scores :
              /\ MinSeq(eApp1.out.sub_scores[g]) = eOut.model.scaling.subScoreMin[g]
              /\ MaxSeq(eApp1.out.sub_scores[g]) = eOut.model.scaling.subScoreMax[g]
        /\ \A i \in DOMAIN eApp1.out.index_0_100 :
              InRange(eApp1.out.index_0_100[i], Zero, I(100))

\* C3: a row that two matrices share gets the same standardized values and
\* the same raw score in the applications of one model to the two matrices
\* under the same directions, whatever the other rows are.
C3_ApplyNeverRefits ==
    (Applied(eApp1) /\ Applied(eApp2) /\ eApp1.directions = eApp2.directions) =>
        \A i \in DOMAIN eApp1.x, j \in DOMAIN eApp2.x :
            eApp1.x[i] = eApp2.x[j] =>
                /\ eApp1.out.z[i] = eApp2.out.z[j]
                /\ eApp1.out.score_raw[i] = eApp2.out.score_raw[j]

\* two applications of a min-max model to matrices with other column
\* ranges that share a row
C3_Witness ==
    /\ Applied(eApp1)
    /\ Applied(eApp2)
    /\ eApp1.directions = eApp2.directions
    /\ eOut.model.standardization.kind = "minmax"
    /\ minmax_fit(apply_direction(eApp1.x, eApp1.directions))
          # minmax_fit(apply_direction(eApp2.x, eApp2.directions))
    /\ \E i \in DOMAIN eApp1.x, j \in DOMAIN eApp2.x :
          /\ eApp1.x[i] = eApp2.x[j]
          /\ \A c \in DOMAIN eApp1.out.z[i] : IsFinite(eApp1.out.z[i][c])

\* the calls of scale_0_100 an application makes: the raw scores with the
\* model's scoreMin and scoreMax, every group's sub-scores with its boundaries
ScaleCalls(app) ==
    {[values |-> app.out.score_raw, vmin |-> eOut.model.scaling.scoreMin,
      vmax |-> eOut.model.scaling.scoreMax, result |-> app.out.index_0_100]}
    \cup {[values |-> app.out.sub_scores[g], vmin |-> app.out.vmin[g],
           vmax |-> app.out.vmax[g], result |-> app.out.sub_index_0_100[g]] :
             g \in DOMAIN app.out.sub_scores}

\* C8: in every call an application makes, scale_0_100 returns exactly 0
\* for a value equal to vmin and exactly 100 for a value equal to vmax when
\* vmax differs from vmin, and 50 for every value when vmax equals vmin.
C8_ScaleAnchors ==
    Applied(eApp1) =>
        \A c \in ScaleCalls(eApp1) :
            /\ Eq(c.vmax, c.vmin) => \A i \in DOMAIN c.result : c.result[i] = I(50)
            /\ ~Eq(c.vmax, c.vmin) =>
                  \A i \in DOMAIN c.values :
                      /\ Eq(c.values[i], c.vmin) => c.result[i] = Zero
                      /\ Eq(c.values[i], c.vmax) => c.result[i] = I(100)

\* a row above vmax has an index above 100, a row below vmin one below 0
NoClamp(scaling, score_raw, index) ==
    Gt(scaling.scoreMax, scaling.scoreMin) =>
        \A i \in DOMAIN score_raw :
            /\ Gt(score_raw[i], scaling.scoreMax) => Gt(index[i], I(100))
            /\ Lt(score_raw[i], scaling.scoreMin) => Lt(index[i], Zero)

\* the raw scores and the indexes of the rows a compute request wrote
ScoreColumn(r) == [i \in DOMAIN resultFiles[r] |-> resultFiles[r][i].score_raw]

IndexColumn(r) == [i \in DOMAIN resultFiles[r] |-> resultFiles[r][i].index_0_100]

\* C9: the index is not clamped: for a model with scoreMax > scoreMin, a
\* row whose raw score is above scoreMax gets an index above 100 and a row
\* whose raw score is below scoreMin an index below 0, in the index
\* apply_weight_model computes and in the rows the compute endpoint writes.
C9_NoClamp ==
    /\ Applied(eApp1) =>
          NoClamp(eOut.model.scaling, eApp1.out.score_raw, eApp1.out.index_0_100)
    /\ \A r \in DOMAIN computed :
          /\ NoClamp(computed[r].inputs.model.scaling, ScoreColumn(r),
                     computed[r].applied_index)
          /\ NoClamp(computed[r].inputs.model.scaling, ScoreColumn(r), IndexColumn(r))

\* a compute request that wrote a row above scoreMax and a row below
\* scoreMin
C9_Witness ==
    \E r \in DOMAIN computed :
        /\ Gt(computed[r].inputs.model.scaling.scoreMax,
              computed[r].inputs.model.scaling.scoreMin)
        /\ \E i \in DOMAIN resultFiles[r] :
              /\ Gt(ScoreColumn(r)[i], computed[r].inputs.model.scaling.scoreMax)
              /\ Gt(IndexColumn(r)[i], I(100))
              /\ Gt(computed[r].applied_index[i], I(100))
        /\ \E i \in DOMAIN resultFiles[r] :
              /\ Lt(ScoreColumn(r)[i], computed[r].inputs.model.scaling.scoreMin)
              /\ Lt(IndexColumn(r)[i], Zero)
              /\ Lt(computed[r].applied_index[i], Zero)

\* an application of the engine with a row above scoreMax and a row below
\* scoreMin
C9_EngineCase ==
    /\ Applied(eApp1)
    /\ Gt(eOut.model.scaling.scoreMax, eOut.model.scaling.scoreMin)
    /\ \E i \in DOMAIN eApp1.out.score_raw :
          /\ Gt(eApp1.out.score_raw[i], eOut.model.scaling.scoreMax)
          /\ Gt(eApp1.out.index_0_100[i], I(100))
    /\ \E i \in DOMAIN eApp1.out.score_raw :
          /\ Lt(eApp1.out.score_raw[i], eOut.model.scaling.scoreMin)
          /\ Lt(eApp1.out.index_0_100[i], Zero)

\* C10: training fails with ComputeError whenever a column of the directed
\* training matrix has max_v == min_v (min-max, entropy) or std == 0
\* (z-score, pca and ahp).
C10_DegenerateColumnRejected ==
    eIn # Idle =>
        LET x == apply_direction(eIn.x, eIn.directions)
        IN  /\ (eIn.method = "entropy"
                  /\ \E j \in 1..NCols(x) :
                        Eq(NanMax(Col(x, j)), NanMin(Col(x, j))))
                  => eOut.err = "ComputeError"
            /\ (eIn.method # "entropy"
                  /\ \E j \in 1..NCols(x) : Eq(NanStd(Col(x, j)), Zero))
                  => eOut.err = "ComputeError"

\* column j of the training matrix holds the same value in every row
SameInEveryRow(x, j) == \A i \in DOMAIN x : Eq(x[i][j], x[1][j])

\* C11: entropy training on a matrix with a column that has the same value
\* in every row fails with ComputeError and returns no model, so that the
\* column's indicator never gets a weight, 0 included.
C11_ConstantColumnRejected ==
    (eIn # Idle /\ eIn.method = "entropy"
        /\ \E j \in 1..NCols(eIn.x) : SameInEveryRow(eIn.x, j))
        => eOut.err = "ComputeError"

\* every value of a dict of numbers is finite
AllFinite(dict) == \A k \in DOMAIN dict : IsFinite(dict[k])

\* the standardization parameters, weights and scaling boundaries of a
\* model record are finite
FiniteModel(model) ==
    /\ IF model.standardization.kind = "minmax"
       THEN AllFinite(model.standardization.min) /\ AllFinite(model.standardization.max)
       ELSE AllFinite(model.standardization.mean) /\ AllFinite(model.standardization.std)
    /\ AllFinite(model.weights)
    /\ IsFinite(model.scaling.scoreMin) /\ IsFinite(model.scaling.scoreMax)
    /\ AllFinite(model.scaling.subScoreMin) /\ AllFinite(model.scaling.subScoreMax)

\* a training matrix of one row, or with a cell that is NaN or infinite
DegenerateRows(x) ==
    \/ Len(x) = 1
    \/ \E i \in DOMAIN x : \E j \in DOMAIN x[i] : ~IsFinite(x[i][j])

\* C13: train_weight_model returns no model whose standardization
\* parameters, weights or scaling boundaries are NaN or infinite,
\* apply_weight_model returns no NaN or infinite score, and training on a
\* single-row matrix or on a matrix with a non-finite cell ends in
\* ComputeError, for every method.
C13_NoNaNPropagation ==
    /\ Trained => FiniteModel(eOut.model)
    /\ Applied(eApp1) =>
          /\ AllFinite(eApp1.out.score_raw)
          /\ \A g \in DOMAIN eApp1.out.sub_scores : AllFinite(eApp1.out.sub_scores[g])
    /\ (eIn # Idle /\ DegenerateRows(eIn.x)) => eOut.err = "ComputeError"

\* C15: the matrix build_matrix_for_datasets hands to the engine has one
\* row per row of the file, in the file's order, with entity and year labels
\* of the same length; column j holds the value of the column mapped to
\* indicator_keys[j]; every cell is a real number; and a file with an
\* empty cell or a cell that is no number raises CsvError.
C15_MatrixComplete ==
    /\ eIn # Idle =>
          /\ Len(eIn.x) = Len(eIn.file.rows)
          /\ Len(eIn.entities) = Len(eIn.x)
          /\ Len(eIn.years) = Len(eIn.x)
          /\ \A i \in DOMAIN eIn.x :
                /\ eIn.entities[i] = eIn.file.rows[i]["entity"]
                /\ Len(eIn.x[i]) = Len(eIn.keys)
                /\ \A j \in DOMAIN eIn.keys :
                      /\ eIn.x[i][j] = CellValue[eIn.file.rows[i][eIn.keys[j]]]
                      /\ IsFinite(eIn.x[i][j])
    /\ \A lib \in Libs : MatrixOf(FileBad, lib, <<"a", "b">>).err = "CsvError"

\* C16: in every record train_weight_model returns, dimension2Weights[g]
\* is the sum of weights[k] over the indicators k whose dimension2Key is g
\* ("default" for an empty one), and the values of dimension2Weights sum to 1.
C16_DimensionWeights ==
    Trained =>
        /\ \A g \in DOMAIN eOut.model.dimension2Weights :
              eOut.model.dimension2Weights[g]
                  = SumOver(eOut.model.weights,
                            {k \in DOMAIN eOut.model.weights : DimOf(eIn.lib[k]) = g})
        /\ SumValues(eOut.model.dimension2Weights) = One

\* the matrix [[10, 1], [20, 2], [30, 3]]
ScaledMatrix == <<<<I(10), I(1)>>, <<I(20), I(2)>>, <<I(30), I(3)>>>>

\* the entropy training on that matrix with both directions positive
ScaledTraining ==
    /\ eIn # Idle
    /\ eIn.method = "entropy"
    /\ eIn.keys = <<"a", "b">>
    /\ eIn.x = ScaledMatrix
    /\ eIn.directions = <<"positive", "positive">>

\* C17: entropy training gives equal weights to two columns that are
\* identical after min-max standardization; on [[10,1],[20,2],[30,3]] with
\* both directions positive the weights are 1/2 and 1/2, and applying the
\* model to the same matrix gives raw scores that increase strictly with
\* the row index and the index values 0, 50, 100.
C17_EntropyEndToEnd ==
    /\ (Trained /\ eIn.method = "entropy") =>
          LET x == apply_direction(eIn.x, eIn.directions)
              fit == minmax_fit(x)
              z == minmax_transform(x, fit.min_v, fit.max_v).z
          IN  \A j1, j2 \in DOMAIN eIn.keys :
                  Col(z, j1) = Col(z, j2) =>
                      eOut.model.weights[eIn.keys[j1]] = eOut.model.weights[eIn.keys[j2]]
    /\ ScaledTraining =>
          /\ eOut.err = "none"
          /\ eOut.model.weights = [k \in {"a", "b"} |-> Q(1, 2)]
          /\ (eApp1 # Idle /\ eApp1.x = eIn.x /\ eApp1.directions = eIn.directions) =>
                /\ eApp1.out.err = "none"
                /\ \A i \in 1..2 : Lt(eApp1.out.score_raw[i], eApp1.out.score_raw[i + 1])
                /\ eApp1.out.index_0_100 = <<I(0), I(50), I(100)>>

\* the model trained on [[10,1],[20,2],[30,3]] applied to the same matrix
C17_Witness ==
    /\ ScaledTraining
    /\ Trained
    /\ Applied(eApp1)
    /\ eApp1.x = eIn.x
    /\ eApp1.directions = eIn.directions
    /\ eApp1.out.index_0_100 = <<I(0), I(50), I(100)>>

\* a_ik = a_ij a_jk for a square matrix of positive entries
IsConsistent(M) ==
    /\ \A i \in DOMAIN M : Len(M[i]) = Len(M)
    /\ \A i, j, k \in DOMAIN M : M[i][k] = Mul(M[i][j], M[j][k])

\* w normalized to sum 1, read from the first column a_i1 = w_i / w_1
NormalizedColumn(M) == [i \in DOMAIN M |-> Div(M[i][1], SumSeq(Col(M, 1)))]

\* C18: on a consistent comparison matrix a_ij = w_i / w_j, _ahp_weights
\* returns lambdaMax = n, CI = 0, CR = 0 and the weights w normalized to sum
\* 1, which training records in the model; for [[1,2,4],[1/2,1,2],[1/4,1/2,1]]
\* the weights are 4/7, 2/7, 1/7.
C18_ConsistentAhp ==
    /\ (eAhp # Idle /\ IsConsistent(eAhp.matrix)) =>
          /\ eAhp.out.err = "none"
          /\ eAhp.out.lambda_max = I(Len(eAhp.matrix))
          /\ eAhp.out.ci = Zero
          /\ eAhp.out.cr = Zero
          /\ eAhp.out.weights = NormalizedColumn(eAhp.matrix)
    /\ (eAhp # Idle /\ eAhp.matrix = Ahp3) =>
          eAhp.out.weights = <<Q(4, 7), Q(2, 7), Q(1, 7)>>
    /\ (Trained /\ eIn.method = "ahp" /\ IsConsistent(eIn.ahp)) =>
          /\ eOut.model.ahp.lambdaMax = I(Len(eIn.ahp))
          /\ eOut.model.ahp.CI = Zero
          /\ eOut.model.ahp.CR = Zero
          /\ \A j \in DOMAIN eIn.keys :
                eOut.model.weights[eIn.keys[j]]
                    = NormalizedColumn(eIn.ahp)[LastIndex(eIn.keys, eIn.keys[j])]

\* _ahp_weights called on [[1,2,4],[1/2,1,2],[1/4,1/2,1]]
C18_Witness ==
    /\ eAhp # Idle
    /\ eAhp.matrix = Ahp3
    /\ eAhp.out.err = "none"
    /\ eAhp.out.cr = Zero

\* the cumulative explained-variance ratios of lines 83-94 for a training
\* matrix of two columns: the eigenvalues of the covariance of the z-scores,
\* sorted descending and clipped at 0, summed and divided by their total
\* (all NaN where LAPACK returned NaN eigenvalues)
ExplainedRatios(x, directions) ==
    LET xd == apply_direction(x, directions)
        fit == zscore_fit(xd)
        c == Cov(zscore_transform(xd, fit.mean, fit.std).z)
        vals == IF \A a \in 1..2 : \A b \in 1..2 : IsFinite(c[a][b])
                THEN Eigh2(c).vals ELSE <<NaN, NaN>>
        eigvals == [l \in 1..2 |-> IF Lt(vals[l], Zero) THEN Zero ELSE vals[l]]
    IN  [l \in 1..2 |-> Div(CumSum(eigvals)[l], SumSeq(eigvals))]

\* the two columns of the directed training matrix have the same z-scores
PerfectlyCorrelated(x, directions) ==
    LET xd == apply_direction(x, directions)
        fit == zscore_fit(xd)
        z == zscore_transform(xd, fit.mean, fit.std).z
    IN  \A i \in DOMAIN z : Eq(z[i][1], z[i][2])

\* the least element of a non-empty set of integers
Least(S) == CHOOSE l \in S : \A m \in S : l <= m

\* C19: the k a pca training records is the smallest component count whose
\* cumulative explained-variance ratio is >= the threshold, clamped to
\* [1, p]; the recorded cumulative is the ratio at that k; and two perfectly
\* correlated indicators give k = 1 and cumulative >= threshold.
C19_PcaSelection ==
    (Trained /\ eIn.method = "pca") =>
        LET cum == ExplainedRatios(eIn.x, eIn.directions)
            thr == eOut.model.pca.threshold
            reach == {l \in 1..2 : Le(thr, cum[l])}
            first == IF reach = {} THEN 3 ELSE Least(reach)
        IN  /\ eOut.model.pca.k = MaxInt(1, MinInt(first, 2))
            /\ eOut.model.pca.cumulative = cum[eOut.model.pca.k]
            /\ PerfectlyCorrelated(eIn.x, eIn.directions) =>
                  /\ eOut.model.pca.k = 1
                  /\ Le(thr, eOut.model.pca.cumulative)

\* a rectangular matrix with as many rows as columns
IsSquare(M) == \A i \in DOMAIN M : Len(M[i]) = Len(M)

\* CI and CR as lines 129-151 define them from lambda_max and n
ConsistencyIndex(lambda_max, n) ==
    IF n > 1 THEN Div(Sub(lambda_max, I(n)), I(n - 1)) ELSE Zero

ConsistencyRatio(lambda_max, n) ==
    IF Eq(ri_table(n), Zero) THEN Zero
    ELSE Div(ConsistencyIndex(lambda_max, n), ri_table(n))

\* C20: CR is a diagnostic only.  _ahp_weights accepts every square
\* comparison matrix, its weights are the principal eigenvector normalized
\* whatever CR is, an AHP training fails for no reason but the matrix not
\* being square or the standardization, and the model's ahp diagnostics
\* record the matrix, CI and CR.
C20_CrIsDiagnostic ==
    /\ (eAhp # Idle /\ IsSquare(eAhp.matrix)) =>
          /\ eAhp.out.err = "none"
          /\ SumSeq(eAhp.out.weights) = One
          /\ MatVec(eAhp.matrix, eAhp.out.weights)
                = [i \in DOMAIN eAhp.matrix |->
                      Mul(eAhp.out.lambda_max, eAhp.out.weights[i])]
          /\ eAhp.out.ci = ConsistencyIndex(eAhp.out.lambda_max, Len(eAhp.matrix))
          /\ eAhp.out.cr = ConsistencyRatio(eAhp.out.lambda_max, Len(eAhp.matrix))
    /\ (eIn # Idle /\ eIn.method = "ahp" /\ eIn.ahp # NoMatrix /\ IsSquare(eIn.ahp)
           /\ Len(eIn.ahp) >= Len(eIn.keys)
           /\ \A j \in 1..NCols(eIn.x) : ~Eq(NanStd(Col(eIn.x, j)), Zero)) =>
          /\ eOut.err = "none"
          /\ eOut.model.ahp.matrix = eIn.ahp
          /\ eOut.model.ahp.CI = ConsistencyIndex(eOut.model.ahp.lambdaMax, Len(eIn.ahp))
          /\ eOut.model.ahp.CR = ConsistencyRatio(eOut.model.ahp.lambdaMax, Len(eIn.ahp))

\* a training on a comparison matrix whose CR is 0.1 or more
C20_Witness ==
    /\ Trained
    /\ eIn.method = "ahp"
    /\ IsSquare(eIn.ahp)
    /\ Le(Q(1, 10), eOut.model.ahp.CR)

\* C22: in every record train_weight_model returns, subScoreMin and
\* subScoreMax have the same keys, which are the groups of dimension2Weights
\* whose weight is not zero, subScoreMin[g] <= subScoreMax[g] for each of
\* them, and scoreMin <= scoreMax.
C22_ScalingGroups ==
    Trained =>
        /\ DOMAIN eOut.model.scaling.subScoreMin = DOMAIN eOut.model.scaling.subScoreMax
        /\ DOMAIN eOut.model.scaling.subScoreMin
              = {g \in DOMAIN eOut.model.dimension2Weights :
                    ~Eq(eOut.model.dimension2Weights[g], Zero)}
        /\ \A g \in DOMAIN eOut.model.scaling.subScoreMin :
              Le(eOut.model.scaling.subScoreMin[g], eOut.model.scaling.subScoreMax[g])
        /\ Le(eOut.model.scaling.scoreMin, eOut.model.scaling.scoreMax)

\* C23: every record train_weight_model returns has one standardization
\* kind, minmax for entropy and zscore for pca and ahp, with the parameter
\* maps of that kind only, each over the set of indicatorKeys;
\* apply_weight_model standardizes by the stored kind, and raises
\* ComputeError for a kind that is neither minmax nor zscore.
C23_OneStandardizationKind ==
    /\ Trained =>
          LET std == eOut.model.standardization
              keys == Range(eOut.model.indicatorKeys)
          IN  /\ std.kind = IF eIn.method = "entropy" THEN "minmax" ELSE "zscore"
              /\ std.kind = "minmax" =>
                    /\ DOMAIN std = {"kind", "min", "max"}
                    /\ DOMAIN std.min = keys /\ DOMAIN std.max = keys
              /\ std.kind = "zscore" =>
                    /\ DOMAIN std = {"kind", "mean", "std"}
                    /\ DOMAIN std.mean = keys /\ DOMAIN std.std = keys
    /\ Applied(eApp1) =>
          LET std == eOut.model.standardization
              keys == eOut.model.indicatorKeys
              x2 == apply_direction(eApp1.x, eApp1.directions)
          IN  eApp1.out.z =
                  IF std.kind = "minmax"
                  THEN minmax_transform(x2, [j \in DOMAIN keys |-> std.min[keys[j]]],
                                        [j \in DOMAIN keys |-> std.max[keys[j]]]).z
                  ELSE zscore_transform(x2, [j \in DOMAIN keys |-> std.mean[keys[j]]],
                                        [j \in DOMAIN keys |-> std.std[keys[j]]]).z
    /\ eKind # Idle => eKind.out.err = "ComputeError"

\* an apply call on a trained record whose kind was replaced by "robust"
C23_Witness ==
    /\ Trained
    /\ eKind # Idle
    /\ eKind.kind = "robust"
    /\ eKind.out.err = "ComputeError"

\* the positions of the keys list whose indicator is in group g
GroupPositions(lib, keys, g) == IdxOf([j \in DOMAIN keys |-> DimOf(lib[keys[j]]) = g], 1)

\* the weights with those of group g multiplied by c
GroupScaled(lib, weights, g, c) ==
    [k \in DOMAIN weights |-> IF DimOf(lib[k]) = g THEN Mul(c, weights[k]) ELSE weights[k]]

\* the positive factors a group's weights are multiplied by
Factors == {I(2), Q(1, 3)}

\* C24: in every result of apply_weight_model, for every group g whose
\* aggregated weight is positive, the conditional weights w / wg sum to 1,
\* the sub-score of every row is the sum of the group's standardized columns
\* weighted by them, and compute_scores on the same z with the weights of g
\* multiplied by a positive factor returns the same sub-scores for g.
C24_SubScoresRenormalized ==
    Applied(eApp1) =>
        LET keys == eOut.model.indicatorKeys
            lib == eApp1.lib
            weights == eOut.model.weights
            z == eApp1.out.z
            w == [j \in DOMAIN keys |-> weights[keys[j]]]
            groups == {DimOf(lib[keys[j]]) : j \in DOMAIN keys}
            pos(g) == GroupPositions(lib, keys, g)
            wg(g) == SumSeq(Pick(w, pos(g)))
            w_cond(g) == [n \in DOMAIN pos(g) |-> Div(w[pos(g)[n]], wg(g))]
        IN  \A g \in groups :
                Gt(wg(g), Zero) =>
                    /\ SumSeq(w_cond(g)) = One
                    /\ g \in DOMAIN eApp1.out.sub_scores
                    /\ \A i \in DOMAIN z :
                          eApp1.out.sub_scores[g][i] = Dot(Pick(z[i], pos(g)), w_cond(g))
                    /\ \A c \in Factors :
                          LET scaled == compute_scores(z, keys, Selected(lib, keys),
                                                       GroupScaled(lib, weights, g, c))
                          IN  /\ g \in DOMAIN scaled.sub_scores
                              /\ scaled.sub_scores[g] = eApp1.out.sub_scores[g]

\* an application with two groups of positive weight below 1 and finite,
\* non-constant sub-scores
C24_Witness ==
    /\ Applied(eApp1)
    /\ eIn.lib = LibPlain
    /\ eApp1.lib = LibPlain
    /\ DOMAIN eApp1.out.sub_scores = {"g1", "g2"}
    /\ \A g \in {"g1", "g2"} :
          /\ Gt(eOut.model.dimension2Weights[g], Zero)
          /\ Lt(eOut.model.dimension2Weights[g], One)
          /\ AllFinite(eApp1.out.sub_scores[g])
          /\ \E i, j \in DOMAIN eApp1.out.sub_scores[g] :
                eApp1.out.sub_scores[g][i] # eApp1.out.sub_scores[g][j]

\* the largest matrix size the RI lookup is read at
MaxMatrixSize == 17

\* the Random Index values for n = 1..15
RandomIndex ==
    <<Zero, Zero, Q(58, 100), Q(9, 10), Q(112, 100), Q(124, 100), Q(132, 100),
      Q(141, 100), Q(145, 100), Q(149, 100), Q(151, 100), Q(148, 100),
      Q(156, 100), Q(157, 100), Q(159, 100)>>

\* C25: the RI of size n is the table's value for n in 1..15 and 1.59
\* above; for every square matrix _ahp_weights is called on, of size n,
\* CI (n - 1) = lambdaMax - n when n > 1 and CI = 0 when n = 1, CR = 0 when
\* the RI of n is 0, whatever CI is, and CR RI = CI otherwise.
C25_ConsistencyDiagnostics ==
    /\ \A n \in 1..MaxMatrixSize :
          ri_table(n) = IF n <= 15 THEN RandomIndex[n] ELSE Q(159, 100)
    /\ (eAhp # Idle /\ IsSquare(eAhp.matrix)) =>
          LET n == Len(eAhp.matrix)
              ri == IF n <= 15 THEN RandomIndex[n] ELSE Q(159, 100)
          IN  /\ eAhp.out.err = "none"
              /\ n > 1 => Mul(eAhp.out.ci, I(n - 1)) = Sub(eAhp.out.lambda_max, I(n))
              /\ n = 1 => eAhp.out.ci = Zero
              /\ ri = Zero => eAhp.out.cr = Zero
              /\ ri # Zero => Mul(eAhp.out.cr, ri) = eAhp.out.ci

\* a call on a matrix of size 2 with CI = 1, whose CR is 0
C25_Witness ==
    /\ eAhp # Idle
    /\ Len(eAhp.matrix) = 2
    /\ eAhp.out.err = "none"
    /\ eAhp.out.ci = One
    /\ eAhp.out.cr = Zero

\* the matrix x with the columns of the "negative" directions negated
Directed(x, directions) ==
    [i \in DOMAIN x |->
        [j \in DOMAIN x[i] |->
            IF directions[j] = "negative" THEN Neg(x[i][j]) ELSE x[i][j]]]

\* C26: _apply_direction returns the matrix with column j negated when
\* directions[j] is "negative" and every other column as it was, and leaves
\* the caller's matrix as it was; train_weight_model fits the
\* standardization on the matrix so directed and apply_weight_model
\* standardizes the matrix so directed.
C26_DirectionNormalizer ==
    /\ eDir # Idle =>
          /\ \A j \in 1..NCols(eDir.values) :
                Col(eDir.out.ret, j) =
                    IF eDir.directions[j] = "negative"
                    THEN [i \in DOMAIN eDir.values |-> Neg(eDir.values[i][j])]
                    ELSE Col(eDir.values, j)
          /\ DOMAIN eDir.out.ret = DOMAIN eDir.values
          /\ eDir.out.values = eDir.values
    /\ Trained =>
          LET x == Directed(eIn.x, eIn.directions)
              std == eOut.model.standardization
          IN  \A j \in DOMAIN eIn.keys :
                  IF eIn.method = "entropy"
                  THEN /\ std.min[eIn.keys[j]] = NanMin(Col(x, j))
                       /\ std.max[eIn.keys[j]] = NanMax(Col(x, j))
                  ELSE /\ std.mean[eIn.keys[j]] = NanMean(Col(x, j))
                       /\ std.std[eIn.keys[j]] = NanStd(Col(x, j))
    /\ Applied(eApp1) =>
          LET x2 == Directed(eApp1.x, eApp1.directions)
              std == eOut.model.standardization
              keys == eOut.model.indicatorKeys
          IN  \A i \in DOMAIN x2 : \A j \in DOMAIN keys :
                  eApp1.out.z[i][j] =
                      IF std.kind = "minmax"
                      THEN Div(Sub(x2[i][j], std.min[keys[j]]),
                               Sub(std.max[keys[j]], std.min[keys[j]]))
                      ELSE Div(Sub(x2[i][j], std.mean[keys[j]]), std.std[keys[j]])

\* a call on a matrix with a positive and a negative column of non-zero
\* finite values
C26_Witness ==
    /\ eDir # Idle
    /\ eDir.directions = <<"positive", "negative">>
    /\ \A i \in DOMAIN eDir.values :
          IsFinite(eDir.values[i][2]) /\ ~Eq(eDir.values[i][2], Zero)
    /\ Col(eDir.out.ret, 1) = Col(eDir.values, 1)
    /\ Col(eDir.out.ret, 2) # Col(eDir.values, 2)

\* a list without a repeated entry
IsInjective(keys) == \A i, j \in DOMAIN keys : keys[i] = keys[j] => i = j

\* C27: in every result of apply_weight_model on distinct indicator keys,
\* every row's raw score is the sum, over the groups whose aggregated weight
\* is positive, of the group's weight as build_dimension2_weights gives it
\* for the same indicators times the row's sub-score for the group.
C27_ScoreDecomposes ==
    (Applied(eApp1) /\ IsInjective(eOut.model.indicatorKeys)) =>
        LET dim == build_dimension2_weights(Selected(eApp1.lib, eOut.model.indicatorKeys),
                                            eOut.model.weights)
            groups == {g \in DOMAIN dim : Gt(dim[g], Zero)}
        IN  /\ groups \subseteq DOMAIN eApp1.out.sub_scores
            /\ \A i \in DOMAIN eApp1.out.score_raw :
                  eApp1.out.score_raw[i]
                      = SumOver([g \in groups |-> Mul(dim[g], eApp1.out.sub_scores[g][i])],
                                groups)


\* ------------------------------------------------------- the service
\* storage.py, sample.py and the handlers of main.py.  A handler runs from
\* the request to the response in one step.

\* dict[k] = v
Put(dict, k, v) == [x \in DOMAIN dict \cup {k} |-> IF x = k THEN v ELSE dict[x]]

\* dict.pop(k, None)
Remove(dict, k) == [x \in DOMAIN dict \ {k} |-> dict[x]]

\* uuid.uuid4().hex: the n-th value drawn
UuidPool == <<"uuid1", "uuid2", "uuid3", "uuid4", "uuid5", "uuid6", "uuid7", "uuid8">>

\* str(int(float(y))) of ensure_required_columns
YearText == [y \in {2020, 2021} |-> IF y = 2020 THEN "2020" ELSE "2021"]

\* ensure_unique_entity_year
DuplicateEntityYear(rows) ==
    \E i, j \in DOMAIN rows :
        i # j /\ rows[i]["entity"] = rows[j]["entity"] /\ rows[i]["year"] = rows[j]["year"]

\* normalize_imported_csv(csv_text, year_override=None) on a parsed text
normalize_imported_csv(parsed) ==
    IF "entity" \notin Range(parsed.columns) THEN Failed("CsvError")
    ELSE IF "year" \notin Range(parsed.columns) THEN Failed("CsvError")
    ELSE IF \E i \in DOMAIN parsed.rows : parsed.rows[i]["year"] \notin DOMAIN YearValue
    THEN Failed("CsvError")
    ELSE IF DuplicateEntityYear(parsed.rows) THEN Failed("CsvError")
    ELSE [err |-> "none",
          parsed |-> [columns |-> parsed.columns,
                      rows |-> [i \in DOMAIN parsed.rows |->
                                   [parsed.rows[i] EXCEPT
                                       !["year"] = YearText[YearValue[@]]]]],
          schema |-> [columns |-> parsed.columns, rowCount |-> Len(parsed.rows)]]

\* the record Store.create_dataset stores
DatasetRecord(id, source_type, is_sample, row_count, columns, now) ==
    [id |-> id, createdAt |-> now, sourceType |-> source_type, isSample |-> is_sample,
     rowCount |-> row_count, columns |-> columns]

\* the groups in the order of sorted(sub_scores.keys())
GroupOrder == <<"default", "g1", "g2", "g3">>

SortedGroups(groups) == SelectSeq(GroupOrder, LAMBDA g : g \in groups)

\* the columns of a result file
ResultColumns(groups) ==
    <<<<"entity">>, <<"year">>, <<"score_raw">>, <<"index_0_100">>>>
    \o Concat([n \in DOMAIN SortedGroups(groups) |->
                  <<<<"sub_score_raw", SortedGroups(groups)[n]>>,
                    <<"subindex", SortedGroups(groups)[n]>>>>])

\* the rows written to result.csv (main.py lines 372-383, sample.py 150-161)
ResultRows(entities, years, score_raw, index_0_100, sub_scores, sub_index) ==
    [i \in DOMAIN score_raw |->
        [entity |-> entities[i],
         year |-> years[i],
         score_raw |-> score_raw[i],
         index_0_100 |-> index_0_100[i],
         sub_score_raw |-> [g \in DOMAIN sub_scores |-> sub_scores[g][i]],
         subindex |-> [g \in DOMAIN sub_scores |-> sub_index[g][i]]]]

\* the ResultSetRecord of main.py lines 390-399 and sample.py 166-175
ResultSetRecord(id, dataset_ids, model_id, rows, groups, now) ==
    [id |-> id, createdAt |-> now, datasetIds |-> dataset_ids, weightModelId |-> model_id,
     rowCount |-> Len(rows), columns |-> ResultColumns(groups)]

\* apply_weight_model followed by the scaling of the raw scores with the
\* model's scoreMin and scoreMax (main.py lines 351-364, sample.py 131-142):
\* the rows of the result and, for the history, the index apply_weight_model
\* computed at its line 310 and the boundaries it used for the groups
ApplyAndScale(model, selected, m) ==
    LET Rows(out) ==
            IF out.err # "none" THEN out
            ELSE [err |-> "none",
                  rows |-> ResultRows(m.entities, m.years, out.score_raw,
                                      scale_0_100(out.score_raw, model.scaling.scoreMin,
                                                  model.scaling.scoreMax),
                                      out.sub_scores, out.sub_index_0_100),
                  groups |-> DOMAIN out.sub_scores,
                  applied_index |-> out.index_0_100,
                  vmin |-> out.vmin,
                  vmax |-> out.vmax]
    IN  Rows(apply_weight_model(model, selected, m.x, m.directions))


\* ---- sample.py.  seed_sample reads its dataset and its indicators from
\* the files of backend/sample at run time and trains on five indicators;
\* the model seeds a sample of two indicators, three entities and a 2x2
\* comparison matrix.

SampleDataset == "sample_dataset"

SampleFile == FileBase

\* sample_indicators.json
SampleIndicators == <<Ind("a", "g1", "positive"), Ind("b", "g2", "positive")>>

SampleKeys == [i \in DOMAIN SampleIndicators |-> SampleIndicators[i].key]

\* the ahp_matrix of lines 81-87, for two indicators
SampleAhp == Ahp2

\* the ids of lines 28-34, by method
SampleModelId ==
    [method \in {"entropy", "pca", "ahp"} |->
        CASE method = "entropy" -> "sample_model_entropy"
          [] method = "pca" -> "sample_model_pca"
          [] method = "ahp" -> "sample_model_ahp"]

SampleResultId ==
    [method \in {"entropy", "pca", "ahp"} |->
        CASE method = "entropy" -> "sample_result_entropy"
          [] method = "pca" -> "sample_result_pca"
          [] method = "ahp" -> "sample_result_ahp"]

\* the position of a method's training among the three of seed_sample
SampleOrder ==
    [method \in {"entropy", "pca", "ahp"} |->
        CASE method = "entropy" -> 1 [] method = "pca" -> 2 [] method = "ahp" -> 3]

\* seed_sample, called at line 51 of main.py when the store is empty.  For
\* the sample of the model every step succeeds.
SeedSample ==
    /\ phase = "boot"
    /\ datasets = <<>> /\ indicators = <<>>
    /\ LET norm == normalize_imported_csv(SampleFile)
           by_key == [k \in Range(SampleKeys) |->
                         SampleIndicators[LastIndex(SampleKeys, k)]]
           id_map == [datasetId |-> SampleDataset, map |-> [k \in Range(SampleKeys) |-> k]]
           \* lines 89-125: the record of a method as train_weight_model returns it
           Train(method, m) ==
               train_weight_model(method, SampleKeys, SampleIndicators, m.x, m.directions,
                                  <<SampleDataset>>,
                                  IF method = "ahp" THEN SampleAhp ELSE NoMatrix,
                                  DefaultThreshold, UuidPool[uuids + SampleOrder[method]],
                                  requests, "nan").model
           \* lines 130-176: compute_result
           Result(model, m) == ApplyAndScale(model, SampleIndicators, m)
           Seed(m, trained) ==
               LET stored == [method \in DOMAIN trained |->
                                 [trained[method] EXCEPT !.id = SampleModelId[method]]]
                   res == [method \in DOMAIN trained |-> Result(stored[method], m)]
               IN  /\ weightModels' = [id \in Range(SampleModelId) |->
                          stored[CHOOSE method \in DOMAIN trained :
                                     SampleModelId[method] = id]]
                   /\ returned' = [id \in Range(SampleModelId) |->
                          trained[CHOOSE method \in DOMAIN trained :
                                      SampleModelId[method] = id]]
                   /\ results' = [id \in Range(SampleResultId) |->
                          LET method == CHOOSE me \in DOMAIN trained : SampleResultId[me] = id
                          IN  ResultSetRecord(id, <<SampleDataset>>, stored[method].id,
                                              res[method].rows, res[method].groups, requests)]
                   /\ resultFiles' = [id \in Range(SampleResultId) |->
                          res[CHOOSE me \in DOMAIN trained : SampleResultId[me] = id].rows]
           Built(m) == Seed(m, [method \in {"entropy", "pca", "ahp"} |-> Train(method, m)])
       IN  /\ datasets' = Put(datasets, SampleDataset,
                              DatasetRecord(SampleDataset, "sample", TRUE,
                                            norm.schema.rowCount, norm.schema.columns,
                                            requests))
           /\ files' = Put(files, SampleDataset, norm.parsed)
           /\ indicators' = by_key
           /\ mappings' = Put(mappings, SampleDataset, id_map)
           /\ Built(build_matrix_for_datasets(datasets', files', mappings',
                                              <<SampleDataset>>, SampleKeys, by_key))
    /\ uuids' = uuids + 3
    /\ phase' = "serving"
    /\ UNCHANGED <<requests, response, computed, route, evars, cvars>>

\* main.py line 49: a data directory that already holds datasets or
\* indicators is served as it is; the model starts from the empty one.

\* ---- the handlers of main.py

\* the number of requests a behaviour of the model handles
MaxRequests == 3

Handling == phase = "serving" /\ requests < MaxRequests

\* A rejection that has already written a file for the result.
RejectAfterWrite(status) ==
    /\ response' = [status |-> status]
    /\ resultFiles' = Put(resultFiles, UuidPool[uuids + 1], <<>>)
    /\ UNCHANGED <<datasets, files, indicators, mappings, weightModels, results,
                   uuids, returned, computed>>

\* a response that leaves the store as it is
Reject(status) ==
    /\ response' = [status |-> status]
    /\ UNCHANGED <<datasets, files, indicators, mappings, weightModels, results,
                   resultFiles, uuids, returned, computed>>

\* the status of an exception that leaves a handler: CsvError and
\* ComputeError are caught and turned into 400, anything else is a 500
StatusOf(err) == IF err \in {"CsvError", "ComputeError"} THEN 400 ELSE 500

\* upsert_indicator (main.py 216-219, storage.py 162-165)
UpsertIndicator(ind) ==
    /\ Handling
    /\ indicators' = Put(indicators, ind.key, ind)
    /\ response' = [status |-> 200]
    /\ requests' = requests + 1
    /\ route' = "upsert_indicator"
    /\ UNCHANGED <<phase, datasets, files, mappings, weightModels, results, resultFiles,
                   uuids, returned, computed, evars, cvars>>

\* delete_indicator (main.py 222-225, storage.py 167-174)
DeleteIndicator(key) ==
    /\ Handling
    /\ indicators' = Remove(indicators, key)
    /\ mappings' = [d \in DOMAIN mappings |->
                       [mappings[d] EXCEPT !.map = Remove(@, key)]]
    /\ response' = [status |-> 200]
    /\ requests' = requests + 1
    /\ route' = "delete_indicator"
    /\ UNCHANGED <<phase, datasets, files, weightModels, results, resultFiles,
                   uuids, returned, computed, evars, cvars>>

\* put_mapping (main.py 234-237, storage.py 191-196)
PutMapping(dataset_id, map) ==
    /\ Handling
    /\ mappings' = Put(mappings, dataset_id, [datasetId |-> dataset_id, map |-> map])
    /\ response' = [status |-> 200]
    /\ requests' = requests + 1
    /\ route' = "put_mapping"
    /\ UNCHANGED <<phase, datasets, files, indicators, weightModels, results, resultFiles,
                   uuids, returned, computed, evars, cvars>>


\* import_dataset_text (main.py 182-208, storage.py 90-117)
ImportDatasetText(csv) ==
    /\ Handling
    /\ uuids < Len(UuidPool)
    /\ LET Create(norm, dataset_id) ==
               IF norm.err # "none" THEN Reject(StatusOf(norm.err))
               ELSE /\ files' = Put(files, dataset_id, norm.parsed)
                    /\ datasets' = Put(datasets, dataset_id,
                                       DatasetRecord(dataset_id, "paste", FALSE,
                                                     Len(norm.parsed.rows),
                                                     norm.parsed.columns, requests + 1))
                    /\ uuids' = uuids + 1
                    /\ response' = [status |-> 200, datasetId |-> dataset_id]
                    /\ UNCHANGED <<indicators, mappings, weightModels, results,
                                   resultFiles, returned, computed>>
       IN  Create(normalize_imported_csv(csv), UuidPool[uuids + 1])
    /\ requests' = requests + 1
    /\ route' = "import_dataset_text"
    /\ UNCHANGED <<phase, evars, cvars>>

\* put_dataset_data (main.py 137-143, storage.py 139-153): the CsvError of
\* the normalization is not caught; put_dataset_files writes the files
\* before it looks the dataset up
PutDatasetData(dataset_id, csv) ==
    /\ Handling
    /\ LET Write(norm) ==
               IF norm.err # "none" THEN Reject(500)
               ELSE /\ files' = Put(files, dataset_id, norm.parsed)
                    /\ IF dataset_id \notin DOMAIN datasets
                       THEN /\ response' = [status |-> 500]
                            /\ UNCHANGED datasets
                       ELSE /\ response' = [status |-> 200]
                            /\ datasets' = [datasets EXCEPT
                                   ![dataset_id].rowCount = norm.schema.rowCount,
                                   ![dataset_id].columns = norm.schema.columns]
                    /\ UNCHANGED <<indicators, mappings, weightModels, results,
                                   resultFiles, uuids, returned, computed>>
       IN  Write(normalize_imported_csv(csv))
    /\ requests' = requests + 1
    /\ route' = "put_dataset_data"
    /\ UNCHANGED <<phase, evars, cvars>>

\* selected = [indicators_by_key[k] for k in keys if k in indicators_by_key]
SelectedOf(keys) ==
    LET present == SelectSeq(keys, LAMBDA k : k \in DOMAIN indicators)
    IN  [j \in DOMAIN present |-> indicators[present[j]]]

\* lines 264-293 of train_model and 298-327 of create_ahp_model, which
\* differ in the method, the matrix and the threshold they pass
TrainAndStore(method, keys, dataset_ids, matrix, threshold, lapack) ==
    LET Store(t) ==
            IF t.err # "none" THEN Reject(StatusOf(t.err))
            ELSE /\ weightModels' = Put(weightModels, t.model.id, t.model)
                 /\ returned' = Put(returned, t.model.id, t.model)
                 /\ uuids' = uuids + 1
                 /\ response' = [status |-> 200, model |-> t.model]
                 /\ UNCHANGED <<datasets, files, indicators, mappings, results,
                                resultFiles, computed>>
        Train(m) ==
            IF m.err # "none" THEN Reject(StatusOf(m.err))
            ELSE Store(train_weight_model(method, keys, SelectedOf(keys), m.x,
                                          m.directions, dataset_ids, matrix, threshold,
                                          UuidPool[uuids + 1], requests + 1, lapack))
    IN  IF Len(SelectedOf(keys)) # Len(keys) THEN Reject(400)
        ELSE Train(build_matrix_for_datasets(datasets, files, mappings, dataset_ids,
                                             keys, indicators))

\* train_model (main.py 262-293)
TrainModel(method, keys, dataset_ids, threshold, lapack) ==
    /\ Handling
    /\ uuids < Len(UuidPool)
    /\ TrainAndStore(method, keys, dataset_ids, NoMatrix, threshold, lapack)
    /\ requests' = requests + 1
    /\ route' = "train_model"
    /\ UNCHANGED <<phase, evars, cvars>>

\* create_ahp_model (main.py 296-327)
CreateAhpModel(keys, dataset_ids, matrix) ==
    /\ Handling
    /\ uuids < Len(UuidPool)
    /\ TrainAndStore("ahp", keys, dataset_ids, matrix, DefaultThreshold, "nan")
    /\ requests' = requests + 1
    /\ route' = "create_ahp_model"
    /\ UNCHANGED <<phase, evars, cvars>>

\* what a compute request read: for the history
ComputeInputs(model, dataset_ids) ==
    [model |-> model,
     datasetIds |-> dataset_ids,
     files |-> [d \in Range(dataset_ids) |-> files[d]],
     maps |-> [d \in Range(dataset_ids) |->
                  IF d \in DOMAIN mappings THEN mappings[d].map ELSE <<>>]]

\* compute (main.py 330-401)
Compute(model_id, dataset_ids) ==
    /\ Handling
    /\ uuids < Len(UuidPool)
    /\ LET Write(model, res, result_id) ==
               IF res.err # "none" THEN Reject(StatusOf(res.err))
               ELSE /\ resultFiles' = Put(resultFiles, result_id, res.rows)
                    /\ results' = Put(results, result_id,
                                      ResultSetRecord(result_id, dataset_ids, model.id,
                                                      res.rows, res.groups, requests + 1))
                    /\ computed' = Put(computed, result_id,
                                       [inputs |-> ComputeInputs(model, dataset_ids),
                                        applied_index |-> res.applied_index,
                                        vmin |-> res.vmin, vmax |-> res.vmax])
                    /\ uuids' = uuids + 1
                    /\ response' = [status |-> 200, resultSetId |-> result_id]
                    /\ UNCHANGED <<datasets, files, indicators, mappings, weightModels,
                                   returned>>
           Apply(model, m) ==
               IF m.err # "none" THEN Reject(StatusOf(m.err))
               ELSE Write(model, ApplyAndScale(model, SelectedOf(model.indicatorKeys), m),
                          UuidPool[uuids + 1])
           Found(model) ==
               IF Len(SelectedOf(model.indicatorKeys)) # Len(model.indicatorKeys)
               THEN Reject(400)
               ELSE Apply(model, build_matrix_for_datasets(datasets, files, mappings,
                                                           dataset_ids, model.indicatorKeys,
                                                           indicators))
       IN  IF model_id \notin DOMAIN weightModels THEN Reject(404)
           ELSE Found(weightModels[model_id])
    /\ requests' = requests + 1
    /\ route' = "compute"
    /\ UNCHANGED <<phase, evars, cvars>>

\* the first record of a list sorted by createdAt, newest first
\* (storage.py 233-237, 252-256), among the records of the set ids.  Records
\* of the same createdAt keep the order of the table; the candidates of the
\* model never share one.
Newest(table, ids) ==
    CHOOSE id \in ids : \A other \in ids : table[other].createdAt <= table[id].createdAt

\* onboarding (main.py 79-114): the response for the store's tables
onboarding(dsets, models, res) ==
    LET Methods == {"entropy", "pca", "ahp"}
        samples == {d \in DOMAIN dsets : dsets[d].isSample}
        sample_dataset_id == Newest(dsets, samples)
        \* the candidates of pick_model and pick_result
        Models(method) ==
            {id \in DOMAIN models :
                /\ models[id].method = method
                /\ sample_dataset_id \in Range(models[id].trainedOnDatasetIds)}
        Results(model_id) ==
            {id \in DOMAIN res :
                /\ res[id].weightModelId = model_id
                /\ sample_dataset_id \in Range(res[id].datasetIds)}
        pick_model(method) == Newest(models, Models(method))
    IN  IF samples = {} THEN [status |-> 404]
        ELSE IF \E method \in Methods : Models(method) = {} THEN [status |-> 404]
        ELSE IF \E method \in Methods : Results(pick_model(method)) = {}
        THEN [status |-> 404]
        ELSE [status |-> 200,
              sampleDatasetId |-> sample_dataset_id,
              weightModelIds |-> [method \in Methods |-> pick_model(method)],
              resultSetIds |-> [method \in Methods |->
                                   Newest(res, Results(pick_model(method)))]]

\* GET /onboarding, which reads the store and writes nothing
Onboarding ==
    /\ phase = "serving"
    /\ response' = onboarding(datasets, weightModels, results)
    /\ route' = "onboarding"
    /\ UNCHANGED <<phase, datasets, files, indicators, mappings, weightModels, results,
                   resultFiles, uuids, requests, returned, computed, evars, cvars>>

\* ---- the requests of the model

\* the indicators posted: b with the other direction, a moved to a new group
IndicatorEdits == {Ind("b", "g2", "negative"), Ind("a", "g3", "positive")}

\* the mappings put: the two columns swapped, no column for b
MappingEdits == {[k \in Keys |-> IF k = "a" THEN "b" ELSE "a"], [k \in {"a"} |-> "a"]}

ImportedFiles == {FileInf}

EditedFiles == {FileCorr, FileWide}

\* the dataset id lists of the requests: one stored dataset, or an id that
\* is not in the store
DatasetIdLists == {<<d>> : d \in DOMAIN datasets \cup {"missing"}}

\* the method and indicatorKeys of the train requests
TrainRequests ==
    {[method |-> "entropy", keys |-> <<"a", "b">>],
     [method |-> "pca", keys |-> <<"a", "b">>],
     [method |-> "pca", keys |-> <<"a">>]}

Init ==
    /\ StoreLoaded
    /\ eIn = Idle
    /\ eOut = Idle
    /\ eApp1 = Idle
    /\ eApp2 = Idle
    /\ eAhp = Idle
    /\ eKind = Idle
    /\ eDir = Idle
    /\ NoCalls

Next ==
    \/ SeedSample
    \/ \E ind \in IndicatorEdits : UpsertIndicator(ind)
    \/ \E key \in Keys : DeleteIndicator(key)
    \/ \E d \in DOMAIN datasets, map \in MappingEdits : PutMapping(d, map)
    \/ \E csv \in ImportedFiles : ImportDatasetText(csv)
    \/ \E d \in DOMAIN datasets, csv \in EditedFiles : PutDatasetData(d, csv)
    \/ \E req \in TrainRequests, ids \in DatasetIdLists, lapack \in {"raise", "nan"} :
          /\ lapack = "raise" => req.method = "pca"
          /\ TrainModel(req.method, req.keys, ids, DefaultThreshold, lapack)
    \/ \E ids \in DatasetIdLists, matrix \in {Ahp1, Ahp2, Ahp3, AhpRagged} :
          CreateAhpModel(<<"a", "b">>, ids, matrix)
    \/ \E id \in DOMAIN weightModels \cup {"missing"}, ids \in DatasetIdLists :
          Compute(id, ids)

Spec == Init /\ [][Next]_vars

\* the service with GET /onboarding among its requests
OnboardingNext ==
    \/ Next
    \/ Onboarding

OnboardingSpec == Init /\ [][OnboardingNext]_vars


\* ------------------------------------------- the Store under threads
\* FastAPI runs the handlers, plain functions, on the threads of a pool, so
\* that calls of one Store overlap.  A thread runs create_weight_model or
\* put_dataset_files a line at a time; write_text is one step that
\* replaces the file's content.

\* the records the threads write: two under the id m1, one under m2
ModelWrites ==
    {[id |-> "m1", method |-> "entropy", createdAt |-> 1],
     [id |-> "m1", method |-> "pca", createdAt |-> 2],
     [id |-> "m2", method |-> "ahp", createdAt |-> 3]}

\* the model the store holds before the threads start
StoredModel == [id |-> "m0", method |-> "entropy", createdAt |-> 0]

\* the arguments put_dataset_data passes (main.py lines 140-142): the
\* normalized text and its schema
PutFilesCall(dataset_id, csv) ==
    [method |-> "put_dataset_files", dataset_id |-> dataset_id,
     csv_text |-> normalize_imported_csv(csv).parsed,
     schema |-> normalize_imported_csv(csv).schema]

\* the calls of the threads
Calls ==
    {[method |-> "create_weight_model", model |-> m] : m \in ModelWrites}
    \cup {PutFilesCall("d1", FileBase), PutFilesCall("d1", FileOne),
          PutFilesCall("missing", FileOne)}

\* a store that holds the dataset d1 and the model m0
CInit ==
    /\ StoreLoaded
    /\ eIn = Idle /\ eOut = Idle /\ eApp1 = Idle /\ eApp2 = Idle /\ eAhp = Idle
    /\ eKind = Idle /\ eDir = Idle
    /\ lock = "free"
    /\ pc = [t \in Threads |-> "idle"]
    /\ call = [t \in Threads |-> None]
    /\ db = [datasets |-> [d \in {"d1"} |->
                 DatasetRecord("d1", "paste", FALSE,
                               normalize_imported_csv(FileCorr).schema.rowCount,
                               normalize_imported_csv(FileCorr).schema.columns, 0)],
             weightModels |-> [m \in {"m0"} |-> StoredModel]]
    /\ dbJson = db
    /\ dataCsv = [d \in {"d1"} |-> normalize_imported_csv(FileCorr).parsed]
    /\ schemaJson = [d \in {"d1"} |-> normalize_imported_csv(FileCorr).schema]

\* a thread of the pool picks up a request
Begin(t, c) ==
    /\ pc[t] = "idle"
    /\ call' = [call EXCEPT ![t] = c]
    /\ pc' = [pc EXCEPT ![t] = IF c.method = "create_weight_model" THEN "228" ELSE "144"]
    /\ UNCHANGED <<lock, db, dbJson, dataCsv, schemaJson, svars, evars>>

\* with self._lock (lines 228 and 146)
Acquire(t) ==
    /\ pc[t] \in {"228", "146"}
    /\ lock = "free"
    /\ lock' = t
    /\ pc' = [pc EXCEPT ![t] = IF pc[t] = "228" THEN "229" ELSE "147"]
    /\ UNCHANGED <<call, db, dbJson, dataCsv, schemaJson, svars, evars>>

\* A line 229 that replaces the table by the one record.
assign_weight_model_alone(tables, model) ==
    [tables EXCEPT !.weightModels = [m \in {model.id} |-> model]]

\* self._db["weightModels"][model["id"]] = model
assign_weight_model(tables, model) ==
    [tables EXCEPT !.weightModels = Put(@, model.id, model)]

\* line 229
CwmAssign(t) ==
    /\ pc[t] = "229"
    /\ db' = assign_weight_model(db, call[t].model)
    /\ pc' = [pc EXCEPT ![t] = "230"]
    /\ UNCHANGED <<lock, call, dbJson, dataCsv, schemaJson, svars, evars>>

\* self._save() (lines 230 and 153, Store._save 79-83)
Save(t) ==
    /\ pc[t] \in {"230", "153"}
    /\ dbJson' = db
    /\ pc' = [pc EXCEPT ![t] = "exit"]
    /\ UNCHANGED <<lock, call, db, dataCsv, schemaJson, svars, evars>>

\* the end of the with block
Release(t) ==
    /\ pc[t] = "exit"
    /\ lock' = "free"
    /\ pc' = [pc EXCEPT ![t] = "done"]
    /\ UNCHANGED <<call, db, dbJson, dataCsv, schemaJson, svars, evars>>

\* csv_path.write_text(csv_text) (line 144)
WriteCsv(t) ==
    /\ pc[t] = "144"
    /\ dataCsv' = Put(dataCsv, call[t].dataset_id, call[t].csv_text)
    /\ pc' = [pc EXCEPT ![t] = "145"]
    /\ UNCHANGED <<lock, call, db, dbJson, schemaJson, svars, evars>>

\* schema_path.write_text(json.dumps(schema)) (line 145)
WriteSchema(t) ==
    /\ pc[t] = "145"
    /\ schemaJson' = Put(schemaJson, call[t].dataset_id, call[t].schema)
    /\ pc' = [pc EXCEPT ![t] = "146"]
    /\ UNCHANGED <<lock, call, db, dbJson, dataCsv, svars, evars>>

\* lines 147-148: KeyError leaves the with block and the call
CheckDataset(t) ==
    /\ pc[t] = "147"
    /\ IF call[t].dataset_id \notin DOMAIN db.datasets
       THEN /\ lock' = "free"
            /\ pc' = [pc EXCEPT ![t] = "KeyError"]
       ELSE /\ pc' = [pc EXCEPT ![t] = "149"]
            /\ UNCHANGED lock
    /\ UNCHANGED <<call, db, dbJson, dataCsv, schemaJson, svars, evars>>

\* lines 149-152
UpdateRecord(t) ==
    /\ pc[t] = "149"
    /\ db' = [db EXCEPT !.datasets[call[t].dataset_id].rowCount = call[t].schema.rowCount,
                        !.datasets[call[t].dataset_id].columns = call[t].schema.columns]
    /\ pc' = [pc EXCEPT ![t] = "153"]
    /\ UNCHANGED <<lock, call, dbJson, dataCsv, schemaJson, svars, evars>>

CNext ==
    \/ \E t \in Threads, c \in Calls : Begin(t, c)
    \/ \E t \in Threads : Acquire(t)
    \/ \E t \in Threads : CwmAssign(t)
    \/ \E t \in Threads : Save(t)
    \/ \E t \in Threads : Release(t)
    \/ \E t \in Threads : WriteCsv(t)
    \/ \E t \in Threads : WriteSchema(t)
    \/ \E t \in Threads : CheckDataset(t)
    \/ \E t \in Threads : UpdateRecord(t)

StoreSpec == CInit /\ [][CNext]_vars


\* ------------------------------- properties of the Store under threads

\* every thread has returned from its call or left it with KeyError
AllReturned == \A t \in Threads : pc[t] \in {"done", "KeyError"}

\* the records the threads' create_weight_model calls wrote under an id
WrittenUnder(id) ==
    {call[t].model : t \in {u \in Threads : call[u] # None
                                  /\ call[u].method = "create_weight_model"
                                  /\ call[u].model.id = id}}

\* C21: after all concurrent create_weight_model calls have returned, the
\* store holds, in memory and in db.json, under every id written exactly
\* one of the records written under it, whole, and every other stored model
\* is what it was.
C21_OneWriterWins ==
    AllReturned =>
        /\ dbJson.weightModels = db.weightModels
        /\ DOMAIN db.weightModels = {"m0"} \cup {call[t].model.id :
               t \in {u \in Threads : call[u].method = "create_weight_model"}}
        /\ \A id \in DOMAIN db.weightModels :
              IF WrittenUnder(id) = {} THEN db.weightModels[id] = StoredModel
              ELSE db.weightModels[id] \in WrittenUnder(id)

\* two threads have written different records under the id m1
C21_Witness ==
    /\ AllReturned
    /\ Cardinality(WrittenUnder("m1")) = 2
    /\ db.weightModels["m1"] \in WrittenUnder("m1")
    /\ db.weightModels["m0"] = StoredModel

\* the schema that belongs to a stored CSV text
SchemaOf(parsed) == [columns |-> parsed.columns, rowCount |-> Len(parsed.rows)]

\* C29: after any interleaving of concurrent put_dataset_files calls, the
\* record of every dataset has the rowCount and columns of the schema of
\* the text in its data.csv, schema.json holds that schema, and a call for
\* an unknown dataset id has raised KeyError without writing a file.
C29_RecordDescribesFile ==
    AllReturned =>
        /\ \A d \in DOMAIN db.datasets :
              /\ db.datasets[d].rowCount = SchemaOf(dataCsv[d]).rowCount
              /\ db.datasets[d].columns = SchemaOf(dataCsv[d]).columns
              /\ schemaJson[d] = SchemaOf(dataCsv[d])
              /\ dbJson.datasets[d] = db.datasets[d]
        /\ \A t \in Threads :
              pc[t] = "KeyError" => call[t].dataset_id \notin DOMAIN dataCsv

\* ----------------------------------------- properties of the service

\* C4: every sub-index a compute request wrote was scaled with the
\* boundaries stored in the model for its group, whatever was done to the
\* indicators after the training.
C4_FrozenBoundaries ==
    \A r \in DOMAIN computed :
        \A g \in DOMAIN computed[r].vmin :
            /\ g \in DOMAIN computed[r].inputs.model.scaling.subScoreMin
            /\ computed[r].vmin[g] = computed[r].inputs.model.scaling.subScoreMin[g]
            /\ computed[r].vmax[g] = computed[r].inputs.model.scaling.subScoreMax[g]

\* C5: the record stored under a model id is field for field the record
\* train_weight_model returned for it.
C5_ModelAsReturned ==
    \A id \in DOMAIN weightModels : weightModels[id] = returned[id]

\* C6: two compute requests that read the same stored model and datasets
\* of the same contents and mappings wrote the same rows, whatever was done
\* to the indicators between them.
C6_ComputeIsPure ==
    \A r1, r2 \in DOMAIN computed :
        computed[r1].inputs = computed[r2].inputs => resultFiles[r1] = resultFiles[r2]

\* C7: no request changes or removes an indicator whose key is in the
\* indicatorKeys of a stored weight model.
Referenced(key) ==
    \E id \in DOMAIN weightModels : key \in Range(weightModels[id].indicatorKeys)

C7_ReferencedIndicatorImmutable ==
    [][\A key \in DOMAIN indicators :
          Referenced(key) => (key \in DOMAIN indicators' /\ indicators'[key] = indicators[key])]_vars

\* the three endpoints that train or apply a model
Computing == {"train_model", "create_ahp_model", "compute"}

\* C12: a train, AHP-create or compute request that fails adds no weight
\* model and no result record to the store and writes no result file:
\* weightModels, results and the result files are what they were before it.
C12_NoPartialSuccess ==
    [][(route' \in Computing /\ requests' = requests + 1 /\ response'.status # 200)
          => /\ weightModels' = weightModels
             /\ results' = results
             /\ resultFiles' = resultFiles]_vars

\* a compute request that failed on the matrix after one that succeeded
C12_Witness ==
    /\ route = "compute"
    /\ response.status = 400
    /\ DOMAIN computed # {}
    /\ DOMAIN resultFiles = DOMAIN results

\* C14: every train, AHP-create or compute request on which the matrix
\* assembly, train_weight_model or apply_weight_model fails is answered
\* with status 400: the error raised is a CsvError or a ComputeError.  (404
\* answers a compute request for a model id that is not in the store.)
C14_FailuresAre400 ==
    (route \in Computing /\ response.status # 200) => response.status \in {400, 404}


\* C28: after the seeding, every answer of GET /onboarding is a 200 that
\* names, for each of entropy, pca and ahp, a stored model of that method
\* trained on the sample dataset and a stored result computed with that
\* model on the sample dataset, whatever was trained or computed since.
C28_OnboardingKeepsSucceeding ==
    route = "onboarding" =>
        /\ response.status = 200
        /\ \A method \in {"entropy", "pca", "ahp"} :
              LET model_id == response.weightModelIds[method]
                  result_id == response.resultSetIds[method]
              IN  /\ model_id \in DOMAIN weightModels
                  /\ weightModels[model_id].method = method
                  /\ response.sampleDatasetId
                        \in Range(weightModels[model_id].trainedOnDatasetIds)
                  /\ result_id \in DOMAIN results
                  /\ results[result_id].weightModelId = model_id
                  /\ response.sampleDatasetId \in Range(results[result_id].datasetIds)

=============================================================================
